---- MODULE Spec2Model ----
(***************************************************************************)
(* The challenge driver of the browser agent: the outer loop that runs one *)
(* model turn ("attempt") per iteration, captures URLs from tool results,  *)
(* classifies the attempt and updates lastKnownStep / attemptForStep.      *)
(*                                                                         *)
(* The repository holds three drivers of the same loop:                    *)
(*   "tanstack"  src/agent.ts 1..1386        (chat() stream, one tier)     *)
(*   "pi"        src/agent.ts 1387..2191     (sharedState, two tiers)      *)
(*   "opencode"  src/unnamed/part_001        (event loop, one tier)        *)
(* The variable `variant` says which of them runs; it never changes.       *)
(***************************************************************************)
EXTENDS Integers, Sequences, FiniteSets, TLC

\* ---- bounds of the model ------------------------------------------------
\* stands for MAX_CHALLENGES (35 in the code): the last challenge step
MaxChallenges == 2
\* stands for the regression ceiling (10 in the code)
RegressionCeiling == 1
\* an attempt is explored up to this many tool calls
MaxToolCalls == 2
\* a run is explored up to this many result rows
MaxResults == 2
\* the browser is launched at most this many times
MaxLaunches == 2
\* closeBrowser is called at most this many times
MaxCloseCalls == 3

\* the pages one context gets in an explored run
MaxPages == 2

\* the longest list of actions given to page_multi_action
MaxActions == 2

\* the most pairs given to drag_and_drop
MaxPairs == 2

\* the timers of this many attempts are followed
MaxWatched == 3

\* the callers of getPage() that run at the same time
MaxCallers == 2

\* the getPage() calls of all callers
MaxGets == 3

\* the closeBrowser() calls made while the callers run
MaxCloses == 2

\* ---- values ---------------------------------------------------------------
\* getStepFromUrl's null
NoStep == -1
\* parsed.step when --step is absent
NoTarget == 0

Variants == {"tanstack", "pi", "opencode"}

\* MODEL_LADDER.length of each driver
LadderLength(v) == IF v = "pi" THEN 2 ELSE 1

MAX_ATTEMPTS(v) == LadderLength(v)

\* A URL is kept by the two things the drivers read from it: the number of
\* its first /step<digits> segment (NoStep when it has none) and whether it
\* contains "congratulations" or "complete".  kind "null" is the null/""
\* value; kind "completion" is the literal marker string "completion".
NoUrl == [kind |-> "null", step |-> NoStep, done |-> FALSE]

CompletionMarker == [kind |-> "completion", step |-> NoStep, done |-> FALSE]

UrlSteps == {NoStep} \cup (0 .. MaxChallenges + 1)

\* the URLs a tool result can carry: any step number without a completion
\* word; with one, either no step segment or a step past the last challenge
PageUrls ==
  {u \in [kind : {"url"}, step : UrlSteps, done : BOOLEAN] :
     u.done => u.step \in {NoStep, MaxChallenges + 1}}

\* url.match(/\/step(\d+)/) then parseInt: "" and "completion" do not match
getStepFromUrl(url) == IF url.kind = "url" THEN url.step ELSE NoStep

\* JavaScript truthiness of a number-or-null: null and 0 are falsy
Truthy(n) == n # NoStep /\ n # 0

\* JavaScript truthiness of a string-or-null: null and "" are falsy
HasUrl(url) == url.kind # "null"

\* afterUrl.includes("congratulations") || afterUrl.includes("complete")
\* ("completion" contains neither word)
IncludesCompletionWord(url) == url.kind = "url" /\ url.done

\* getModelForAttempt: Math.min(attempt, MODEL_LADDER.length - 1)
getModelForAttempt(v, attempt) ==
  IF attempt < LadderLength(v) - 1 THEN attempt ELSE LadderLength(v) - 1

\* isOpus: the model of this attempt is the last one of the ladder
isOpus(v, attempt) == getModelForAttempt(v, attempt) = LadderLength(v) - 1

ToolNames == {"escalate", "scan_page_for_code", "enter_code", "other"}

NoTool == "none"

VARIABLES
  variant,            \* which driver runs
  targetStep,         \* TARGET_STEP (NoTarget when --step is absent)
  lastKnownStep,
  attemptForStep,
  isFirstChallenge,
  totalRegressions,
  challengeResults,   \* sequence of [step, success, model]
  pc,                 \* "loop" (at the while test), "running", "done"
  currentStep,        \* const currentStep of the running iteration
  timings,            \* [lastEnterCodeUrl, escalateRequested, toolCalls]
  sharedState,        \* pi: [lastEnterCodeUrl, escalateRequested, completionDetected]
  aborted,            \* tanstack: abortController.signal.aborted
  abortedForEscalate, \* pi / opencode
  pending,            \* the tool call that is executing (NoTool when none)
  lastSeenStep,       \* history: the step of the last URL a tool result of the attempt reported
  escalateFirst,      \* history: escalate was seen before any captured URL
  lastOutcome,        \* history: how the last attempt was classified
  regressionsInARow,  \* history: the Regressed outcomes since the last other outcome
  instruction,        \* history: the instruction the last launched attempt was given
  positioned,         \* history: a scan_page_for_code call of the run has completed
  timedOut,           \* history: the timer of the attempt launched last has fired
  seen,               \* history: where the submit results have shown the browser to be
  browser,            \* tools/browser.ts: the module's browser handle, "null" or "open"
  page,               \* window.location.href of the page (NoUrl without a browser)
  call,               \* the tool invocation that runs: [tool, path, stage, beforeUrl]
  result,             \* what the last tool invocation gave back
  closing,            \* a closeBrowser call awaits browser.close()
  closeResult,        \* how the last closeBrowser call ended
  launches,           \* history: chromium.launch() calls that succeeded
  closesOfLaunch,     \* history: browser.close() calls that succeeded on this launch
  closeCalls,         \* history: closeBrowser calls
  context,            \* tools/browser.ts: the module's context handle, "null" or "open"
  pageRef,            \* tools/browser.ts: the page the module's page variable refers to (0: null)
  ctxPages,           \* context.pages(): the open pages of the context, oldest first
  multi,              \* page_multi_action: [stage, actions, at, results]
  drag,               \* drag_and_drop: the call that runs and what it tried
  scan,               \* scan_page_for_code: its arguments and whether it called page.goto
  made,               \* history: what getPage created since the last close, and the page it gave last
  proc,               \* the process: "main" (in the loop), "summary", "returned", "exited"
  exitBy,             \* history: what ended the process
  watch,              \* the timers of the attempts: which are pending, and the place main() is at
  race                \* tools/browser.ts called by several callers: its handles and each caller's place

driverVars == <<variant, targetStep, lastKnownStep, attemptForStep, isFirstChallenge,
                totalRegressions, challengeResults, pc, currentStep, timings,
                sharedState, aborted, abortedForEscalate, pending,
                lastSeenStep, escalateFirst, lastOutcome, regressionsInARow,
                instruction, positioned, timedOut, seen>>

procVars == <<proc, exitBy, watch, race>>

sessionVars == <<context, pageRef, ctxPages, made>>

bodyVars == <<multi, drag, scan>>

toolVars == <<browser, page, call, result, closing, closeResult, launches,
              closesOfLaunch, closeCalls, sessionVars, bodyVars, procVars>>

vars == <<driverVars, toolVars>>

\* newTimings()
newTimings == [lastEnterCodeUrl |-> NoUrl, escalateRequested |-> FALSE, toolCalls |-> 0]

\* a faulty reset that leaves the escalate flag of the last turn standing
resetStateLeaky == [lastEnterCodeUrl |-> NoUrl, escalateRequested |-> TRUE,
                    completionDetected |-> FALSE]

\* sharedState.reset()
resetState == [lastEnterCodeUrl |-> NoUrl, escalateRequested |-> FALSE,
               completionDetected |-> FALSE]

Outcome(k, n) == [kind |-> k, n |-> n]

\* finalStep = TARGET_STEP ?? MAX_CHALLENGES (tanstack); the other two loop to MAX_CHALLENGES
finalStep == IF variant = "tanstack" /\ targetStep # NoTarget THEN targetStep ELSE MaxChallenges

\* parsed.only: set whenever --step is given (tanstack only reads it)
only == variant = "tanstack" /\ targetStep # NoTarget

\* no tool runs
NoCall == [tool |-> NoTool, path |-> "none", stage |-> "idle", beforeUrl |-> NoUrl]

\* no tool has returned yet
NoResult == [tool |-> NoTool, kind |-> "none", url |-> NoUrl, beforeUrl |-> NoUrl,
             observed |-> NoUrl, submitted |-> FALSE]

\* page_multi_action does not run
NoMulti == [stage |-> "idle", actions |-> << >>, at |-> 1, results |-> << >>]

\* drag_and_drop does not run
NoDrag == [stage |-> "idle", pairs |-> 0, strategy |-> "auto", at |-> 1,
           tried |-> << >>, won |-> << >>, report |-> "none"]

\* scan_page_for_code does not run
NoScan == [stage |-> "idle", navigate |-> FALSE, url |-> NoUrl, before |-> NoUrl,
           goto |-> FALSE, noAuto |-> FALSE, at |-> 1, performed |-> 0,
           autoActions |-> 0, contentAt |-> 0]

\* nothing was created and no page was handed out
NothingMade == [browsers |-> 0, contexts |-> 0, pages |-> 0, ids |-> 0, got |-> 0]

\* history, kept when on is set: the step the browser is on (NoStep while no
\* submit result has shown one), the step it was on when the attempt was
\* launched, the highest step and the completion page the results of the
\* attempt have shown, and whether a scan of the attempt reported COMPLETED
Untracked == [on |-> FALSE, at |-> NoStep, startedOn |-> NoStep, highest |-> NoStep,
              completion |-> FALSE, scanCompleted |-> FALSE]

NothingSeen == [Untracked EXCEPT !.on = TRUE]

\* tools/browser.ts at module load: browser = null, context = null, page = null
ToolsIdle ==
  /\ browser = "null"
  /\ page = NoUrl
  /\ call = NoCall
  /\ result = NoResult
  /\ closing = FALSE
  /\ closeResult = "none"
  /\ launches = 0
  /\ closesOfLaunch = 0
  /\ closeCalls = 0
  /\ context = "null"
  /\ pageRef = 0
  /\ ctxPages = << >>
  /\ made = NothingMade
  /\ multi = NoMulti
  /\ drag = NoDrag
  /\ scan = NoScan

\* no attempt has armed a timer
NoWatch == [phase |-> "loop", attempt |-> 0, timeoutHandles |-> {},
            heartbeatHandles |-> {}, late |-> FALSE]

\* a caller of getPage(): the await it stands at, the locals b (getContext)
\* and ctx (getPage), the context it made, the page it was given, and as
\* history whether its last call began before any launch had finished, and
\* the closes that had finished when it began
NoCaller == [pc |-> "idle", b |-> 0, c |-> 0, ctx |-> 0, got |-> 0,
             early |-> FALSE, after |-> 0]

\* let browser = null, context = null, page = null (0 is null; the browsers,
\* contexts and pages are numbered as they are made), the browser of each
\* context, the context of each page, the closes that had finished when each
\* browser was launched, the browsers that are closed, the browser a
\* closeBrowser call awaits the close of (0: none), and the calls made
NoRace == [browser |-> 0, context |-> 0, page |-> 0, owner |-> << >>, home |-> << >>,
           born |-> << >>, closed |-> {}, closer |-> 0, closes |-> 0, closeCalls |-> 0,
           gets |-> 0,
           th |-> [i \in 1..MaxCallers |-> NoCaller]]

\* main() has been called and no signal has arrived
ProcStarted ==
  /\ proc = "main"
  /\ exitBy = "none"
  /\ watch = NoWatch
  /\ race = NoRace

\* the state main() enters the loop in
LoopEntered ==
  /\ ToolsIdle
  /\ ProcStarted
  /\ variant \in Variants
  /\ targetStep \in {NoTarget} \cup 1..MaxChallenges
  /\ lastKnownStep = (IF targetStep # NoTarget THEN targetStep ELSE 1)
  /\ attemptForStep = 0
  /\ isFirstChallenge = TRUE
  /\ totalRegressions = 0
  /\ challengeResults = << >>
  /\ pc = "loop"
  /\ currentStep = lastKnownStep
  /\ timings = newTimings
  /\ sharedState = resetState
  /\ aborted = FALSE
  /\ abortedForEscalate = FALSE
  /\ pending = NoTool
  /\ lastSeenStep = NoStep
  /\ escalateFirst = FALSE
  /\ lastOutcome = Outcome("None", NoStep)
  /\ regressionsInARow = 0
  /\ instruction = "none"
  /\ positioned = FALSE
  /\ timedOut = FALSE

\* main() at the loop, the browser not followed
Init == LoopEntered /\ seen = Untracked

\* main() at the loop, the position of the browser followed through the
\* submit results
TrackInit == LoopEntered /\ seen = NothingSeen

\* ---- rows of challengeResults --------------------------------------------
\* challengeResults.push({ step: currentStep, ..., success, model })
resultRow(s, ok, v, a) == [step |-> s, success |-> ok, model |-> getModelForAttempt(v, a)]

\* ---- the pieces of the dispatch ------------------------------------------
\* a faulty attemptForStep++ that falls back to the first tier
nextTierReset(a) == 0

\* attemptForStep++
nextTier(a) == a + 1

\* a faulty test that lets the tier run one past the ladder before the skip
exhaustedLate(v, a) == a > MAX_ATTEMPTS(v)

\* attemptForStep >= MAX_ATTEMPTS
exhausted(v, a) == a >= MAX_ATTEMPTS(v)

\* a faulty skip that stays on the step
skipStepStuck(s) == s

\* lastKnownStep = currentStep + 1
skipStep(s) == s + 1

\* attemptForStep = 0
resetTier == 0

\* a faulty escalation that stays on the first tier
escalatedTierSame == resetTier

\* attemptForStep = 1 (pi, opencode: "skip to opus")
escalatedTier == 1

\* a faulty advance that counts one step up instead of reading the URL
advancedStepNext(afterStep, s) == s + 1

\* lastKnownStep = afterStep, on an advance
advancedStep(afterStep, s) == afterStep

\* a faulty regression that keeps the step
regressedStepStay(afterStep, s) == s

\* lastKnownStep = afterStep, on a regression
regressedStep(afterStep, s) == afterStep

\* totalRegressions++
countRegression(r) == r + 1

\* a faulty ceiling test that stops one regression early
tooManyRegressionsEarly(r) == r >= RegressionCeiling

\* totalRegressions > 10
tooManyRegressions(r) == r > RegressionCeiling

\* a faulty failure branch that leaves the loop
failedBreaks == "done"

\* the failure branch and the catch block fall through to the loop head
failedContinues == "loop"

\* a faulty completion branch that goes on with the loop
completedContinues == "loop"

\* the break of the completion branch: the loop is left
completedBreaks == "done"

\* ---- the URL an attempt is classified from -------------------------------
\* timings.lastEnterCodeUrl || "" (tanstack, opencode); sharedState.lastEnterCodeUrl || "" (pi)
afterUrlOf(v, t, sh) == IF v = "pi" THEN sh.lastEnterCodeUrl ELSE t.lastEnterCodeUrl

\* the first operand of the completion test:
\* afterUrl === "completion" (tanstack, opencode); sharedState.completionDetected (pi)
completionSeen(v, t, sh) ==
  IF v = "pi" THEN sh.completionDetected ELSE t.lastEnterCodeUrl = CompletionMarker

\* "Determine outcome from browser URL": the if / else-if chain after a turn
classify(afterUrl, completion, s) ==
  LET afterStep == IF HasUrl(afterUrl) THEN getStepFromUrl(afterUrl) ELSE NoStep
  IN  IF completion \/ IncludesCompletionWord(afterUrl)
        THEN Outcome("Completed", NoStep)
      ELSE IF Truthy(afterStep) /\ afterStep > s
        THEN Outcome("Advanced", afterStep)
      ELSE IF Truthy(afterStep) /\ afterStep < s
        THEN Outcome("Regressed", afterStep)
      ELSE Outcome("Stalled", NoStep)

\* the test guarding the capture of an enter_code result's URL:
\* !currentStepFromUrl || (newStep && newStep > currentStepFromUrl)
captures(cur, newUrl) ==
  LET newStep == getStepFromUrl(newUrl)
      currentStepFromUrl == getStepFromUrl(cur)
  IN  ~Truthy(currentStepFromUrl) \/ (Truthy(newStep) /\ newStep > currentStepFromUrl)

\* "Keep the highest step URL seen (not the last)": the value of
\* timings.lastEnterCodeUrl after an enter_code result carrying newUrl
keepUrl(cur, newUrl) == IF captures(cur, newUrl) THEN newUrl ELSE cur

\* stepAdvanced: set only when the URL was kept and its step is past currentStep
stepAdvanced(cur, newUrl, s) ==
  /\ captures(cur, newUrl)
  /\ Truthy(getStepFromUrl(newUrl))
  /\ getStepFromUrl(newUrl) > s

\* ---- the loop ---------------------------------------------------------------
\* what every path out of an iteration does alike.  The locals of the
\* iteration are gone.  When the loop goes on, the head of the next
\* iteration follows with no await in between: timings = newTimings(),
\* sharedState.reset(), const currentStep = lastKnownStep.
Leave(o) ==
  /\ lastOutcome' = o
  /\ regressionsInARow' = (IF o.kind = "Regressed" THEN regressionsInARow + 1 ELSE 0)
  /\ pending' = NoTool
  /\ aborted' = FALSE
  /\ abortedForEscalate' = FALSE
  /\ escalateFirst' = FALSE
  /\ IF pc' = "loop" /\ lastKnownStep' <= finalStep
       THEN /\ timings' = newTimings
            /\ sharedState' = resetState
            /\ currentStep' = lastKnownStep'
       ELSE UNCHANGED <<timings, sharedState, currentStep>>
  /\ UNCHANGED <<variant, targetStep, isFirstChallenge, lastSeenStep, instruction,
                 positioned, timedOut, seen>>
  /\ UNCHANGED toolVars

\* the body shared by the "failed to advance" branch, the "No response"
\* branch and the catch block: one failure row, next tier, skip when exhausted
FailedAttempt ==
  /\ challengeResults' = Append(challengeResults,
                                resultRow(currentStep, FALSE, variant, attemptForStep))
  /\ IF exhausted(variant, nextTier(attemptForStep))
       THEN attemptForStep' = resetTier /\ lastKnownStep' = skipStep(currentStep)
       ELSE attemptForStep' = nextTier(attemptForStep) /\ UNCHANGED lastKnownStep
  /\ pc' = failedContinues
  /\ UNCHANGED totalRegressions

\* a faulty driver that counts regressions in a row: progress resets the counter
regressionsForgotten(n) == 0

\* the Advanced branch has no statement on totalRegressions
keptRegressions(n) == n

\* the dispatch on the outcome of classify
Dispatch(o) ==
  CASE o.kind = "Completed" ->
         /\ challengeResults' = Append(challengeResults,
                                       resultRow(currentStep, TRUE, variant, attemptForStep))
         /\ pc' = completedBreaks
         /\ UNCHANGED <<lastKnownStep, attemptForStep, totalRegressions>>
    [] o.kind = "Advanced" ->
         /\ challengeResults' = Append(challengeResults,
                                       resultRow(currentStep, TRUE, variant, attemptForStep))
         /\ lastKnownStep' = advancedStep(o.n, currentStep)
         /\ attemptForStep' = resetTier
         /\ pc' = (IF only THEN "done" ELSE "loop")
         /\ totalRegressions' = keptRegressions(totalRegressions)
    [] o.kind = "Regressed" ->
         /\ totalRegressions' = countRegression(totalRegressions)
         /\ lastKnownStep' = regressedStep(o.n, currentStep)
         /\ attemptForStep' = resetTier
         /\ pc' = (IF tooManyRegressions(totalRegressions') THEN "done" ELSE "loop")
         /\ UNCHANGED challengeResults
    [] OTHER -> FailedAttempt

\* if (isFirstChallenge) "Navigate to the challenge ..." else "Solve this
\* challenge step ... Do NOT navigate away"
instructionFor(first) == IF first THEN "navigate" ELSE "inPlace"

\* the while test holds and the turn is launched: the instruction is built
\* (isFirstChallenge = false) and the model call starts
Launch ==
  /\ pc = "loop" /\ lastKnownStep <= finalStep
  /\ pc' = "running"
  /\ instruction' = instructionFor(isFirstChallenge)
  /\ isFirstChallenge' = FALSE
  /\ lastSeenStep' = NoStep
  /\ lastOutcome' = Outcome("None", NoStep)
  /\ timedOut' = FALSE
  /\ seen' = [seen EXCEPT !.startedOn = seen.at, !.highest = NoStep,
                          !.completion = FALSE, !.scanCompleted = FALSE]
  /\ UNCHANGED <<variant, targetStep, lastKnownStep, attemptForStep, totalRegressions,
                 challengeResults, currentStep, timings, sharedState, aborted,
                 abortedForEscalate, pending, escalateFirst, regressionsInARow,
                 positioned>>
  /\ UNCHANGED toolVars

\* Launch, explored up to MaxResults rows
StartAttempt == Len(challengeResults) < MaxResults /\ Launch

\* the while test fails: the loop is left for the summary
Finish ==
  /\ pc = "loop" /\ lastKnownStep > finalStep
  /\ pc' = "done"
  /\ UNCHANGED <<variant, targetStep, lastKnownStep, attemptForStep, isFirstChallenge,
                 totalRegressions, challengeResults, currentStep, timings, sharedState,
                 aborted, abortedForEscalate, pending, lastSeenStep, escalateFirst,
                 lastOutcome, regressionsInARow, instruction, positioned, timedOut, seen>>
  /\ UNCHANGED toolVars

\* ---- tool events ----------------------------------------------------------
\* a faulty selection that hands the escalate tool to every tier
offeredAlways(v, a, t) == TRUE

\* the tools of an attempt: escalate is offered only below the last tier
\* (tools = isOpus ? without escalate : with escalate)
offered(v, a, t) == t = "escalate" => ~isOpus(v, a)

\* const tools of the attempt
tools(v, a) == {t \in ToolNames : offered(v, a, t)}

\* the inputs of a tool completion: only enter_code carries a URL (NoUrl when
\* the result has none), only scan_page_for_code a completion status
resultOf(t, newUrl, completed) ==
  /\ t # "enter_code" => newUrl = NoUrl
  /\ t # "scan_page_for_code" => completed = FALSE

\* what the event handlers leave alone
ChunkFrame ==
  UNCHANGED <<variant, targetStep, lastKnownStep, attemptForStep, isFirstChallenge,
              totalRegressions, challengeResults, pc, currentStep, lastOutcome,
              regressionsInARow, instruction, toolVars>>

\* history: what a tool result shows of the browser: the URL of an
\* enter_code result, the COMPLETED status of a scan
sees(sn, t, newUrl, completed) ==
  IF ~sn.on THEN sn
  ELSE IF t = "enter_code" /\ HasUrl(newUrl)
    THEN [sn EXCEPT !.at = getStepFromUrl(newUrl),
                    !.highest = IF getStepFromUrl(newUrl) > @
                                  THEN getStepFromUrl(newUrl) ELSE @,
                    !.completion = @ \/ IncludesCompletionWord(newUrl)]
    ELSE IF t = "scan_page_for_code" /\ completed
      THEN [sn EXCEPT !.completion = TRUE, !.scanCompleted = TRUE]
      ELSE sn

\* history: the step of the URL this completion reported, if any
seenStep(t, newUrl) ==
  IF t = "enter_code" /\ HasUrl(newUrl) THEN getStepFromUrl(newUrl) ELSE lastSeenStep

\* ---- tanstack: the chunks of the chat() stream ---------------------------
\* TOOL_CALL_START: timings.toolCalls++
TsToolCallStart(t) ==
  /\ variant = "tanstack" /\ pc = "running" /\ ~aborted
  /\ pending = NoTool
  /\ timings.toolCalls < MaxToolCalls
  /\ offered(variant, attemptForStep, t)
  /\ timings' = [timings EXCEPT !.toolCalls = @ + 1]
  /\ pending' = t
  /\ UNCHANGED <<sharedState, aborted, abortedForEscalate, lastSeenStep, positioned,
                 timedOut, seen, escalateFirst>>
  /\ ChunkFrame

\* what TOOL_CALL_END writes to timings: the escalate flag, the completion
\* marker of a scan with status COMPLETED, the URL of an enter_code result
toolCallEnd(t, tm, newUrl, completed) ==
  CASE t = "escalate"           -> [tm EXCEPT !.escalateRequested = TRUE]
    [] t = "scan_page_for_code" -> IF completed
                                     THEN [tm EXCEPT !.lastEnterCodeUrl = CompletionMarker]
                                     ELSE tm
    [] t = "enter_code"         -> IF HasUrl(newUrl)
                                     THEN [tm EXCEPT !.lastEnterCodeUrl =
                                                       keepUrl(tm.lastEnterCodeUrl, newUrl)]
                                     ELSE tm
    [] OTHER                    -> tm

\* TOOL_CALL_END; the stream is aborted when enter_code advanced the step
TsToolCallEnd(newUrl, completed) ==
  /\ variant = "tanstack" /\ pc = "running" /\ ~aborted
  /\ pending # NoTool
  /\ resultOf(pending, newUrl, completed)
  /\ timings' = toolCallEnd(pending, timings, newUrl, completed)
  /\ aborted' = (/\ pending = "enter_code"
                 /\ HasUrl(newUrl)
                 /\ stepAdvanced(timings.lastEnterCodeUrl, newUrl, currentStep))
  /\ lastSeenStep' = seenStep(pending, newUrl)
  /\ positioned' = (positioned \/ pending = "scan_page_for_code")
  /\ UNCHANGED timedOut
  /\ seen' = sees(seen, pending, newUrl, completed)
  /\ escalateFirst' = (escalateFirst
                         \/ (pending = "escalate" /\ ~HasUrl(timings.lastEnterCodeUrl)))
  /\ pending' = NoTool
  /\ UNCHANGED <<sharedState, abortedForEscalate>>
  /\ ChunkFrame

\* a faulty timer callback that logs and leaves the signal alone
abortIgnored(signal) == signal

\* abortController.abort(): the signal of the stream is aborted
abort(signal) == TRUE

\* the per-challenge timer fires: abortController.abort()
TsTimeout ==
  /\ variant = "tanstack" /\ pc = "running" /\ ~aborted /\ ~timedOut
  /\ aborted' = abort(aborted)
  /\ timedOut' = TRUE
  /\ UNCHANGED seen
  /\ UNCHANGED <<timings, sharedState, abortedForEscalate, pending, lastSeenStep,
                 positioned, escalateFirst>>
  /\ ChunkFrame

\* "Handle escalation": escalateRequested && !lastEnterCodeUrl
TsEscalated ==
  /\ attemptForStep' = (IF exhausted(variant, nextTier(attemptForStep))
                          THEN resetTier ELSE nextTier(attemptForStep))
  /\ IF exhausted(variant, nextTier(attemptForStep))
       THEN /\ challengeResults' = Append(challengeResults,
                                     resultRow(currentStep, FALSE, variant, attemptForStep))
            /\ lastKnownStep' = skipStep(currentStep)
       ELSE UNCHANGED <<challengeResults, lastKnownStep>>
  /\ pc' = "loop"
  /\ UNCHANGED totalRegressions

\* the for-await loop ends (the stream is over, or it was aborted): the
\* escalation test, then the outcome from the captured URL
TsStreamEnds ==
  /\ variant = "tanstack" /\ pc = "running"
  /\ pending = NoTool \/ aborted
  /\ IF timings.escalateRequested /\ ~HasUrl(timings.lastEnterCodeUrl)
       THEN TsEscalated /\ Leave(Outcome("Escalated", NoStep))
       ELSE LET o == classify(afterUrlOf(variant, timings, sharedState),
                              completionSeen(variant, timings, sharedState), currentStep)
            IN  Dispatch(o) /\ Leave(o)

\* createAdapter or the stream throws: the catch block
TsThrows ==
  /\ variant = "tanstack" /\ pc = "running" /\ ~aborted
  /\ FailedAttempt
  /\ Leave(Outcome("Errored", NoStep))

Tanstack ==
  \/ \E t \in ToolNames : TsToolCallStart(t)
  \/ \E newUrl \in PageUrls \cup {NoUrl}, completed \in BOOLEAN :
       TsToolCallEnd(newUrl, completed)
  \/ TsTimeout
  \/ TsStreamEnds
  \/ TsThrows

\* ---- pi: the session events and the in-process tools --------------------
\* tool_execution_start: timings.toolCalls++.  session.abort() is not
\* awaited and the tools ignore the abort signal, so tool calls of the turn
\* still run after the abort was requested.
PiToolStart(t) ==
  /\ variant = "pi" /\ pc = "running"
  /\ pending = NoTool
  /\ timings.toolCalls < MaxToolCalls
  /\ offered(variant, attemptForStep, t)
  /\ timings' = [timings EXCEPT !.toolCalls = @ + 1]
  /\ pending' = t
  /\ UNCHANGED <<sharedState, aborted, abortedForEscalate, lastSeenStep, positioned,
                 timedOut, seen, escalateFirst>>
  /\ ChunkFrame

\* escalate's execute(): sharedState.escalateRequested = true
executeEscalate(sh) == [sh EXCEPT !.escalateRequested = TRUE]

\* enter_code's execute(): if (urlChanged) sharedState.lastEnterCodeUrl = feedback.url
executeEnterCode(sh, newUrl) ==
  IF HasUrl(newUrl) THEN [sh EXCEPT !.lastEnterCodeUrl = newUrl] ELSE sh

\* scan_page_for_code's execute(): the completion page sets completionDetected
executeScan(sh, completed) ==
  IF completed THEN [sh EXCEPT !.completionDetected = TRUE] ELSE sh

\* what execute() of an in-process tool writes to the shared state
executeTool(t, sh, newUrl, completed) ==
  CASE t = "escalate"           -> executeEscalate(sh)
    [] t = "enter_code"         -> executeEnterCode(sh, newUrl)
    [] t = "scan_page_for_code" -> executeScan(sh, completed)
    [] OTHER                    -> sh

\* a faulty escalation check that never aborts
escalateAbortNever(v, a, sh) == FALSE

\* the escalation check of tool_execution_end
escalateAbort(v, a, sh) ==
  sh.escalateRequested /\ ~isOpus(v, a) /\ ~HasUrl(sh.lastEnterCodeUrl)

\* the tool runs, then tool_execution_end
PiToolEnd(newUrl, completed) ==
  /\ variant = "pi" /\ pc = "running"
  /\ pending # NoTool
  /\ resultOf(pending, newUrl, completed)
  /\ sharedState' = executeTool(pending, sharedState, newUrl, completed)
  /\ IF escalateAbort(variant, attemptForStep, sharedState')
       THEN abortedForEscalate' = TRUE /\ aborted' = TRUE
       ELSE UNCHANGED <<abortedForEscalate, aborted>>
  /\ lastSeenStep' = seenStep(pending, newUrl)
  /\ positioned' = (positioned \/ pending = "scan_page_for_code")
  /\ UNCHANGED timedOut
  /\ seen' = sees(seen, pending, newUrl, completed)
  /\ escalateFirst' = (escalateFirst
                         \/ (pending = "escalate" /\ ~HasUrl(sharedState.lastEnterCodeUrl)))
  /\ pending' = NoTool
  /\ UNCHANGED timings
  /\ ChunkFrame

\* "If aborted for escalation, skip to opus"
skipToOpus ==
  /\ attemptForStep' = escalatedTier
  /\ pc' = "loop"
  /\ UNCHANGED <<lastKnownStep, totalRegressions, challengeResults>>

\* session.prompt() resolves
PiPromptReturns ==
  /\ variant = "pi" /\ pc = "running"
  /\ pending = NoTool
  /\ IF abortedForEscalate
       THEN skipToOpus /\ Leave(Outcome("Escalated", NoStep))
       ELSE LET o == classify(afterUrlOf(variant, timings, sharedState),
                              completionSeen(variant, timings, sharedState), currentStep)
            IN  Dispatch(o) /\ Leave(o)

\* a faulty catch block that takes every exception for an escalation
caughtEscalationAlways(flag, a, url) == TRUE

\* the condition of the catch block that turns an exception into an escalation
caughtEscalation(flag, a, url) ==
  abortedForEscalate \/ (flag /\ a = 0 /\ ~HasUrl(url))

\* session.prompt() rejects, or the session cannot be created
PiPromptThrows ==
  /\ variant = "pi" /\ pc = "running"
  /\ pending = NoTool
  /\ IF caughtEscalation(sharedState.escalateRequested, attemptForStep,
                         sharedState.lastEnterCodeUrl)
       THEN skipToOpus /\ Leave(Outcome("Escalated", NoStep))
       ELSE FailedAttempt /\ Leave(Outcome("Errored", NoStep))

\* getModel() finds no model: no record, next tier, skip when exhausted,
\* continue (the instruction is not built, isFirstChallenge stays)
ModelNotFound ==
  /\ variant = "pi" /\ pc = "loop" /\ lastKnownStep <= finalStep
  /\ IF exhausted(variant, nextTier(attemptForStep))
       THEN attemptForStep' = resetTier /\ lastKnownStep' = skipStep(currentStep)
       ELSE attemptForStep' = nextTier(attemptForStep) /\ UNCHANGED lastKnownStep
  /\ pc' = "loop"
  /\ UNCHANGED <<totalRegressions, challengeResults>>
  /\ Leave(Outcome("NoModel", NoStep))

\* ModelNotFound, explored up to MaxResults rows
PiModelNotFound == Len(challengeResults) < MaxResults /\ ModelNotFound

Pi ==
  \/ \E t \in ToolNames : PiToolStart(t)
  \/ \E newUrl \in PageUrls \cup {NoUrl}, completed \in BOOLEAN : PiToolEnd(newUrl, completed)
  \/ PiPromptReturns
  \/ PiPromptThrows
  \/ PiModelNotFound

\* ---- opencode: the global event loop and the prompt -----------------------
\* a tool part turns "pending"/"running": timings.toolCalls++
OcToolPending(t) ==
  /\ variant = "opencode" /\ pc = "running"
  /\ pending = NoTool
  /\ timings.toolCalls < MaxToolCalls
  /\ offered(variant, attemptForStep, t)
  /\ timings' = [timings EXCEPT !.toolCalls = @ + 1]
  /\ pending' = t
  /\ UNCHANGED <<sharedState, aborted, abortedForEscalate, lastSeenStep, positioned,
                 timedOut, seen, escalateFirst>>
  /\ ChunkFrame

\* what a "completed" tool part writes to timings; newUrl is NoUrl when the
\* output carries no "| http..." URL
partCompleted(t, tm, newUrl, completed) ==
  LET flagged == IF t = "escalate" THEN [tm EXCEPT !.escalateRequested = TRUE] ELSE tm
      scanned == IF t = "scan_page_for_code" /\ completed
                   THEN [flagged EXCEPT !.lastEnterCodeUrl = CompletionMarker]
                   ELSE flagged
  IN  IF t = "enter_code" /\ HasUrl(newUrl)
        THEN [scanned EXCEPT !.lastEnterCodeUrl = keepUrl(scanned.lastEnterCodeUrl, newUrl)]
        ELSE scanned

\* a tool part turns "completed"
OcToolCompleted(newUrl, completed) ==
  /\ variant = "opencode" /\ pc = "running"
  /\ pending # NoTool
  /\ resultOf(pending, newUrl, completed)
  /\ timings' = partCompleted(pending, timings, newUrl, completed)
  /\ lastSeenStep' = seenStep(pending, newUrl)
  /\ positioned' = (positioned \/ pending = "scan_page_for_code")
  /\ UNCHANGED timedOut
  /\ seen' = sees(seen, pending, newUrl, completed)
  /\ escalateFirst' = (escalateFirst
                         \/ (pending = "escalate" /\ ~HasUrl(timings.lastEnterCodeUrl)))
  /\ pending' = NoTool
  /\ UNCHANGED <<sharedState, aborted, abortedForEscalate>>
  /\ ChunkFrame

\* client.session.prompt() resolves; noResponse: !message || !message.parts
OcPromptReturns(noResponse) ==
  /\ variant = "opencode" /\ pc = "running"
  /\ pending = NoTool
  /\ IF abortedForEscalate
       THEN skipToOpus /\ Leave(Outcome("Escalated", NoStep))
       ELSE IF noResponse
         THEN FailedAttempt /\ Leave(Outcome("NoResponse", NoStep))
         ELSE LET o == classify(afterUrlOf(variant, timings, sharedState),
                                completionSeen(variant, timings, sharedState), currentStep)
              IN  Dispatch(o) /\ Leave(o)

\* the catch block
OcCatch ==
  IF caughtEscalation(timings.escalateRequested, attemptForStep, timings.lastEnterCodeUrl)
    THEN skipToOpus /\ Leave(Outcome("Escalated", NoStep))
    ELSE FailedAttempt /\ Leave(Outcome("Errored", NoStep))

\* client.session.prompt() rejects
OcPromptThrows ==
  /\ variant = "opencode" /\ pc = "running"
  /\ pending = NoTool
  /\ OcCatch

\* client.session.create() rejects: the catch block runs before the
\* instruction is built (isFirstChallenge stays)
SessionCreateFails ==
  /\ variant = "opencode" /\ pc = "loop" /\ lastKnownStep <= finalStep
  /\ OcCatch

\* SessionCreateFails, explored up to MaxResults rows
OcSessionCreateFails == Len(challengeResults) < MaxResults /\ SessionCreateFails

Opencode ==
  \/ \E t \in ToolNames : OcToolPending(t)
  \/ \E newUrl \in PageUrls \cup {NoUrl}, completed \in BOOLEAN :
       OcToolCompleted(newUrl, completed)
  \/ \E noResponse \in BOOLEAN : OcPromptReturns(noResponse)
  \/ OcPromptThrows
  \/ OcSessionCreateFails

Next ==
  \/ StartAttempt
  \/ Finish
  \/ Tanstack
  \/ Pi
  \/ Opencode

Spec == Init /\ [][Next]_vars

\* the same loop with the history of the browser's position kept
TrackSpec == TrackInit /\ [][Next]_vars

\* ---- the loop run to its end -----------------------------------------------
\* the same steps with no limit on the rows
LiveNext ==
  \/ Next
  \/ Launch
  \/ ModelNotFound
  \/ SessionCreateFails

\* every attempt ends and the driver goes on: a step is taken while one is
\* possible
LiveSpec == Init /\ [][LiveNext]_vars /\ WF_vars(LiveNext)

\* ---- the tools and the browser ------------------------------------------------
\* the tools whose bodies are modelled
PageTools == {"enter_code", "scan_page_for_code", "page_scroll"}

\* the branches of a tool body that differ in their error handling
ToolPaths(t) ==
  CASE t = "enter_code"         -> {"submit"}
    [] t = "scan_page_for_code" -> {"navigate", "scan"}
    [] t = "page_scroll"        -> {"selector", "pixels"}

\* the page a fresh context opens
BlankPage == [kind |-> "blank", step |-> NoStep, done |-> FALSE]

\* the operations of a tool body that can fail before it acts on the page
opsBefore(t, path) ==
  CASE t = "enter_code"         -> {"dismissPopups", "findInput", "fill"}
    [] t = "scan_page_for_code" -> IF path = "navigate" THEN {"goto"} ELSE {}
    [] t = "page_scroll"        -> IF path = "selector"
                                     THEN {"scrollIntoViewIfNeeded"} ELSE {}

\* the operations that can fail after it acted: page.evaluate of the
\* feedback, of dismissPopups / readPage, of the scroll position
opsAfter(t, path) == {"evaluate"}

\* what becomes of a failure of op: "error" when the body returns an error
\* result for it, "exception" when it stands outside every try block
handling(t, path, op) ==
  CASE t = "enter_code"         -> IF op \in {"findInput", "fill"}
                                     THEN "error" ELSE "exception"
    [] t = "scan_page_for_code" -> "exception"
    [] t = "page_scroll"        -> IF path = "selector" THEN "error" ELSE "exception"

\* the end of enter_code: tools/enter-code.ts compares feedback.url with
\* beforeUrl; .opencode/tools/enter-code.ts reports OK with feedback.url
enterCodeReturns(v, beforeUrl, feedbackUrl) ==
  IF v = "opencode" THEN [kind |-> "ok", url |-> feedbackUrl]
  ELSE IF feedbackUrl = beforeUrl THEN [kind |-> "error", url |-> NoUrl]
  ELSE [kind |-> "ok", url |-> feedbackUrl]

\* the value a tool body returns when nothing failed
returns(v, t, beforeUrl, url) ==
  IF t = "enter_code" THEN enterCodeReturns(v, beforeUrl, url)
  ELSE [kind |-> "ok", url |-> url]

ToolFrame == UNCHANGED <<driverVars, procVars, bodyVars, closing, closeResult, closeCalls>>

\* a step of a tool body that does not go through tools/browser.ts
BodyFrame == ToolFrame /\ UNCHANGED sessionVars

\* the model calls a tool
ToolCalled(t, path) ==
  /\ call.stage = "idle" /\ ~closing
  /\ call' = [tool |-> t, path |-> path, stage |-> "called", beforeUrl |-> NoUrl]
  /\ UNCHANGED <<browser, page, result, launches, closesOfLaunch>>
  /\ BodyFrame

\* how a getPage() call ends: it returns the page, or the named call of it
\* rejects
GetPageOutcomes == {"ok", "launch", "newContext", "addInitScript", "newPage"}

\* the elements of a sequence
Elems(q) == {q[i] : i \in 1..Len(q)}

\* getPage: if (!page || page.isClosed())
needsPage(ref, open) == ref = 0 \/ ref \notin open

\* a faulty getContext that makes a context whenever a page is needed
needsContextAlways(ctx) == TRUE

\* getContext: if (!context)
needsContext(ctx) == ctx = "null"

\* getBrowser: if (!browser)
needsBrowser(b) == b = "null"

\* page = pages.length > 0 ? pages[0] : await ctx.newPage()
pickPage(pages, fresh) == IF pages # << >> THEN Head(pages) ELSE fresh

\* const page = await getPage(): the page is returned when the module has an
\* open one; else getContext (and in it getBrowser) and the page of the
\* context are awaited, and what was made before a rejection stays in the
\* module's variables
GetPage(out) ==
  /\ call.stage = "called"
  /\ LET need        == needsPage(pageRef, Elems(ctxPages))
         needCtx     == need /\ needsContext(context)
         needBrowser == needCtx /\ needsBrowser(browser)
         needNew     == need /\ ctxPages = << >>
         gotBrowser  == needBrowser /\ out # "launch"
         gotCtx      == needCtx /\ out \notin {"launch", "newContext"}
         gotNew      == needNew /\ out = "ok"
         fresh       == made.ids + 1
         ref         == IF need THEN pickPage(ctxPages, fresh) ELSE pageRef
         url         == IF need THEN BlankPage ELSE page
     IN  /\ out = "launch" => needBrowser
         /\ out \in {"newContext", "addInitScript"} => needCtx
         /\ out = "newPage" => needNew
         /\ needBrowser => launches < MaxLaunches
         /\ needNew => made.ids < MaxPages
         /\ browser' = (IF gotBrowser THEN "open" ELSE browser)
         /\ launches' = (IF gotBrowser THEN launches + 1 ELSE launches)
         /\ closesOfLaunch' = (IF gotBrowser THEN 0 ELSE closesOfLaunch)
         /\ context' = (IF gotCtx THEN "open" ELSE context)
         /\ pageRef' = (IF out = "ok" THEN ref ELSE pageRef)
         /\ ctxPages' = (IF gotNew THEN <<fresh>> ELSE ctxPages)
         /\ page' = (IF out = "ok" THEN url ELSE page)
         /\ made' = [browsers |-> made.browsers + (IF gotBrowser THEN 1 ELSE 0),
                     contexts |-> made.contexts + (IF gotCtx THEN 1 ELSE 0),
                     pages    |-> made.pages + (IF gotNew THEN 1 ELSE 0),
                     ids      |-> made.ids + (IF gotNew THEN 1 ELSE 0),
                     got      |-> (IF out = "ok" THEN ref ELSE made.got)]
         /\ IF out = "ok"
              THEN /\ call' = [call EXCEPT !.stage = "started", !.beforeUrl = url]
                   /\ UNCHANGED result
              ELSE /\ result' = [tool |-> call.tool, kind |-> "exception", url |-> NoUrl,
                                 beforeUrl |-> NoUrl, observed |-> NoUrl,
                                 submitted |-> FALSE]
                   /\ call' = NoCall
  /\ ToolFrame

\* a page of the context is closed by the site or by the user; while a tool
\* body works on the page this shows as an operation of the body that fails
PageCloses(id) ==
  /\ call.stage = "idle" /\ ~closing
  /\ id \in Elems(ctxPages)
  /\ ctxPages' = SelectSeq(ctxPages, LAMBDA x : x # id)
  /\ made' = (IF id = pageRef THEN [made EXCEPT !.pages = 0] ELSE made)
  /\ UNCHANGED <<browser, page, call, result, launches, closesOfLaunch, context, pageRef>>
  /\ ToolFrame

\* the site opens a window: one more page of the context
PopupOpens ==
  /\ call.stage = "idle" /\ ~closing
  /\ ctxPages # << >>
  /\ made.ids < MaxPages
  /\ ctxPages' = Append(ctxPages, made.ids + 1)
  /\ made' = [made EXCEPT !.ids = @ + 1]
  /\ UNCHANGED <<browser, page, call, result, launches, closesOfLaunch, context, pageRef>>
  /\ ToolFrame

\* the body acts on the page and the page reacts: enter_code fills and
\* submits, scan_page_for_code navigates and auto-solves (the URL after it is
\* any URL, the same one included); page_scroll leaves the URL alone
ToolActs(u) ==
  /\ call.stage = "started"
  /\ call.tool = "page_scroll" => u = page
  /\ page' = u
  /\ call' = [call EXCEPT !.stage = "acted"]
  /\ UNCHANGED <<browser, result, launches, closesOfLaunch>>
  /\ BodyFrame

\* an operation of the body fails
ToolFails(op) ==
  /\ \/ call.stage = "started" /\ op \in opsBefore(call.tool, call.path)
     \/ call.stage = "acted" /\ op \in opsAfter(call.tool, call.path)
  /\ result' = [tool |-> call.tool, kind |-> handling(call.tool, call.path, op),
                url |-> NoUrl, beforeUrl |-> call.beforeUrl, observed |-> NoUrl,
                submitted |-> FALSE]
  /\ call' = NoCall
  /\ UNCHANGED <<browser, page, launches, closesOfLaunch>>
  /\ BodyFrame

\* the body reaches its return statement
ToolReturns ==
  /\ call.stage = "acted"
  /\ LET r == returns(variant, call.tool, call.beforeUrl, page)
     IN  result' = [tool |-> call.tool, kind |-> r.kind, url |-> r.url,
                    beforeUrl |-> call.beforeUrl, observed |-> page,
                    submitted |-> call.tool = "enter_code"]
  /\ call' = NoCall
  /\ UNCHANGED <<browser, page, launches, closesOfLaunch>>
  /\ BodyFrame

\* a faulty closeBrowser that keeps the handle
closedHandleKept == "open"

\* browser = null, after browser.close()
closedHandle == "null"

\* closeBrowser() is called: if (browser) await browser.close(); a call
\* without a browser returns at once
CloseBrowser ==
  /\ call.stage = "idle" /\ ~closing
  /\ closeCalls < MaxCloseCalls
  /\ closeCalls' = closeCalls + 1
  /\ IF browser # "null"
       THEN closing' = TRUE /\ UNCHANGED closeResult
       ELSE closeResult' = "returned" /\ UNCHANGED closing
  /\ UNCHANGED <<driverVars, procVars, sessionVars, bodyVars, browser, page, call,
                 result, launches, closesOfLaunch>>

\* browser.close() settles: on success browser = null, context = null,
\* page = null; on a rejection closeBrowser rejects and the handles stay
BrowserCloseSettles(ok) ==
  /\ closing
  /\ closing' = FALSE
  /\ IF ok
       THEN /\ browser' = closedHandle
            /\ context' = "null"
            /\ pageRef' = 0
            /\ ctxPages' = << >>
            /\ made' = NothingMade
            /\ page' = NoUrl
            /\ closesOfLaunch' = closesOfLaunch + 1
            /\ closeResult' = "closed"
       ELSE /\ closeResult' = "threw"
            /\ UNCHANGED <<browser, page, closesOfLaunch, sessionVars>>
  /\ UNCHANGED <<driverVars, procVars, bodyVars, call, result, launches, closeCalls>>

ToolsNext ==
  \/ \E t \in PageTools : \E path \in ToolPaths(t) : ToolCalled(t, path)
  \/ \E out \in GetPageOutcomes : GetPage(out)
  \/ \E u \in PageUrls : ToolActs(u)
  \/ \E op \in {"dismissPopups", "findInput", "fill", "goto",
                 "scrollIntoViewIfNeeded", "evaluate"} : ToolFails(op)
  \/ ToolReturns
  \/ CloseBrowser
  \/ \E ok \in BOOLEAN : BrowserCloseSettles(ok)

\* the tools and closeBrowser, called in any order on the same browser
ToolsInit == Init /\ targetStep = NoTarget

ToolsSpec == ToolsInit /\ [][ToolsNext]_vars

\* ---- tools/browser.ts on its own ---------------------------------------------
\* the caller of getPage() is done with the page and returns
CallerDone ==
  /\ call.stage = "started"
  /\ call' = NoCall
  /\ result' = [tool |-> call.tool, kind |-> "ok", url |-> page,
                beforeUrl |-> call.beforeUrl, observed |-> page, submitted |-> FALSE]
  /\ UNCHANGED <<browser, page, launches, closesOfLaunch>>
  /\ BodyFrame

SessionNext ==
  \/ \E t \in PageTools : \E path \in ToolPaths(t) : ToolCalled(t, path)
  \/ \E out \in GetPageOutcomes : GetPage(out)
  \/ CallerDone
  \/ \E id \in 1..MaxPages : PageCloses(id)
  \/ PopupOpens
  \/ CloseBrowser
  \/ \E ok \in BOOLEAN : BrowserCloseSettles(ok)

\* getPage and closeBrowser called one after another, while pages of the
\* context open and close
SessionSpec == ToolsInit /\ [][SessionNext]_vars

\* ---- page_multi_action ---------------------------------------------------------
\* the action types by what the switch does with them: "click" stands for the
\* cases that need a target (click, hover, press, select, check), "type" for
\* those that always act (type, scroll), "wait" for the wait case
ActionTypes == {"click", "type", "wait"}

\* an element of args.actions: its type, whether it names its target, whether
\* waitMs is set
ActionInputs == [type : ActionTypes, target : BOOLEAN, waitMs : BOOLEAN]

\* the lists of at most n actions
ActionLists(n) == UNION {[1..k -> ActionInputs] : k \in 0..n}

\* the case of the switch awaits a call on the page
awaitsPage(a) == a.type = "click" => a.target

\* if (action.waitMs && action.type !== "wait") await page.waitForTimeout(...)
waitsAfter(a) == a.waitMs /\ a.type # "wait"

\* what one pass of the loop body pushes for the action at index i: the
\* result of the case, or "error" from the catch block when the awaited call
\* rejects; the wait after the case stands in the same try block
pushed(a, i, opOk, waitOk) ==
  IF awaitsPage(a) /\ ~opOk
    THEN << [of |-> i, what |-> "error"] >>
    ELSE << [of |-> i, what |-> (IF awaitsPage(a) THEN "done" ELSE "missing")] >>
           \o (IF waitsAfter(a) /\ ~waitOk
                 THEN << [of |-> i, what |-> "error"] >> ELSE << >>)

\* the tool is called: const page = await getPage(); const results = []
MultiCalled(list, gotPage) ==
  /\ multi.stage = "idle"
  /\ multi' = [stage |-> (IF gotPage THEN "running" ELSE "threw"), actions |-> list,
               at |-> 1, results |-> << >>]
  /\ UNCHANGED <<driverVars, procVars, sessionVars, drag, scan, browser, page, call, result,
                 closing, closeResult, launches, closesOfLaunch, closeCalls>>

\* one pass of for (const action of args.actions || [])
MultiStep(opOk, waitOk) ==
  /\ multi.stage = "running" /\ multi.at <= Len(multi.actions)
  /\ LET a == multi.actions[multi.at]
     IN  /\ (~opOk) => awaitsPage(a)
         /\ (~waitOk) => (waitsAfter(a) /\ opOk)
         /\ multi' = [multi EXCEPT !.at = @ + 1,
                                   !.results = @ \o pushed(a, multi.at, opOk, waitOk)]
  /\ UNCHANGED <<driverVars, procVars, sessionVars, drag, scan, browser, page, call, result,
                 closing, closeResult, launches, closesOfLaunch, closeCalls>>

\* return JSON.stringify({ result: results.join(" | ") })
MultiReturns ==
  /\ multi.stage = "running" /\ multi.at > Len(multi.actions)
  /\ multi' = [multi EXCEPT !.stage = "returned"]
  /\ UNCHANGED <<driverVars, procVars, sessionVars, drag, scan, browser, page, call, result,
                 closing, closeResult, launches, closesOfLaunch, closeCalls>>

MultiNext ==
  \/ \E list \in ActionLists(MaxActions) : \E gotPage \in BOOLEAN :
        MultiCalled(list, gotPage)
  \/ \E opOk \in BOOLEAN : \E waitOk \in BOOLEAN : MultiStep(opOk, waitOk)
  \/ MultiReturns

\* one call of page_multi_action with any list of actions
MultiSpec == ToolsInit /\ [][MultiNext]_vars

\* ---- drag_and_drop ---------------------------------------------------------------
\* args.strategy
StrategyArgs == {"auto", "react", "dragTo", "mouse", "dataTransfer"}

\* the order "auto" stands for
AutoOrder == <<"react", "dataTransfer", "mouse", "dragTo">>

\* const strategies = args.strategy && args.strategy !== "auto" ? [args.strategy] : [...]
strategies(arg) == IF arg # "auto" THEN <<arg>> ELSE AutoOrder

\* strategies.filter((s) => s !== "react" && s !== "auto")
remainingStrategies(arg) == SelectSeq(strategies(arg), LAMBDA x : x # "react" /\ x # "auto")

\* if (result.results.some((r) => r.includes(":ok"))) return ... "partial"
returnsOnPartial(oks, n) == oks # {} /\ oks # 1..n

\* the strategies runOne goes through until winner succeeds (all of them when
\* none does)
attempted(rem, winner) ==
  IF winner = "none" THEN rem
  ELSE SubSeq(rem, 1, CHOOSE k \in 1..Len(rem) : rem[k] = winner)

\* the tool is called with n pairs: getPage, dismissPopups, the pairs array,
\* the strategies
DragCalled(n, arg) ==
  /\ drag.stage = "idle"
  /\ drag' = [stage |-> (IF "react" \in Elems(strategies(arg)) THEN "react" ELSE "pairs"),
              pairs |-> n, strategy |-> arg, at |-> 1,
              tried |-> [i \in 1..n |-> << >>], won |-> [i \in 1..n |-> "none"],
              report |-> "none"]
  /\ UNCHANGED <<driverVars, procVars, sessionVars, multi, scan, browser, page, call, result,
                 closing, closeResult, launches, closesOfLaunch, closeCalls>>

\* the react strategy: one page.evaluate runs all pairs; oks are the pairs it
\* reports ":ok" for; the evaluate can reject as a whole
ReactRuns(oks, rejects) ==
  /\ drag.stage = "react"
  /\ oks \subseteq 1..drag.pairs
  /\ rejects => oks = {}
  /\ LET n == drag.pairs
         ends == IF rejects THEN Len(strategies(drag.strategy)) = 1
                 ELSE oks = 1..n \/ returnsOnPartial(oks, n)
     IN  drag' = [drag EXCEPT
                    !.tried = [i \in 1..n |-> <<"react">>],
                    !.won = [i \in 1..n |-> IF i \in oks THEN "react" ELSE "none"],
                    !.stage = IF ends THEN "returned" ELSE "pairs",
                    !.report = IF ~ends THEN "none"
                               ELSE IF rejects THEN "react:error"
                               ELSE IF oks = 1..n THEN "react:ok" ELSE "react:partial"]
  /\ UNCHANGED <<driverVars, procVars, sessionVars, multi, scan, browser, page, call, result,
                 closing, closeResult, launches, closesOfLaunch, closeCalls>>

\* outputs.push(await runOne(pairs[i], i)): the locators are waited for, then
\* the remaining strategies run in order until one does not throw
RunOne(visible, winner) ==
  /\ drag.stage = "pairs" /\ drag.at <= drag.pairs
  /\ LET rem == remainingStrategies(drag.strategy)
         i   == drag.at
     IN  /\ winner \in Elems(rem) \cup {"none"}
         /\ (~visible) => winner = "none"
         /\ drag' = [drag EXCEPT
                        !.at = @ + 1,
                        !.tried[i] = IF visible THEN @ \o attempted(rem, winner) ELSE @,
                        !.won[i] = winner]
  /\ UNCHANGED <<driverVars, procVars, sessionVars, multi, scan, browser, page, call, result,
                 closing, closeResult, launches, closesOfLaunch, closeCalls>>

\* return JSON.stringify({ result: outputs.join(" | ") }): every pair's
\* string names the strategies that threw and the one that was ok
DragReturns ==
  /\ drag.stage = "pairs" /\ drag.at > drag.pairs
  /\ drag' = [drag EXCEPT !.stage = "returned", !.report = "pairs"]
  /\ UNCHANGED <<driverVars, procVars, sessionVars, multi, scan, browser, page, call, result,
                 closing, closeResult, launches, closesOfLaunch, closeCalls>>

DragNext ==
  \/ \E n \in 1..MaxPairs : \E arg \in StrategyArgs : DragCalled(n, arg)
  \/ \E oks \in SUBSET (1..MaxPairs) : \E rejects \in BOOLEAN :
        ReactRuns(oks, rejects)
  \/ \E visible \in BOOLEAN : \E winner \in {"dataTransfer", "mouse", "dragTo", "none"} :
        RunOne(visible, winner)
  \/ DragReturns

\* one call of drag_and_drop with any pairs and any strategy
DragSpec == ToolsInit /\ [][DragNext]_vars

\* ---- scan_page_for_code: the navigation before the scan ------------------------
\* the challenge's start page, `${urlObj.origin}/`
BaseUrl == [kind |-> "url", step |-> NoStep, done |-> FALSE]

\* requestedStep: the step of args.url (part_002 375-383); the opencode tool
\* does not parse the URL
requestedStep(v, url) == IF v = "opencode" THEN NoStep ELSE getStepFromUrl(url)

\* let targetUrl = requestedStep && baseUrl ? baseUrl : rawUrl
targetUrl(v, url) == IF Truthy(requestedStep(v, url)) THEN BaseUrl ELSE url

\* whether page.goto is called: part_002 has if (args.navigate && hasUrl) and
\* in it if (currentUrl !== targetUrl); .opencode/tools has if (args.url)
callsGoto(v, nav, url, current) ==
  IF v = "opencode" THEN HasUrl(url)
  ELSE nav /\ HasUrl(url) /\ current # targetUrl(v, url)

\* whether the block around the goto is entered at all
entersNavigation(v, nav, url) ==
  IF v = "opencode" THEN HasUrl(url) ELSE nav /\ HasUrl(url)

\* where the page can be when the block is left: after the jump to the
\* requested step, or after the click on START (the first step, or the page
\* stays when there is no button)
landings(v, url, at) ==
  IF Truthy(requestedStep(v, url))
    THEN {[kind |-> "url", step |-> requestedStep(v, url), done |-> FALSE]}
    ELSE {at, [kind |-> "url", step |-> 1, done |-> FALSE]}

\* args.navigate; the opencode tool has no such argument, its url argument
\* ("Only used for initial navigation") is the caller's permission
navigateArgs(v, url) == IF v = "opencode" THEN {HasUrl(url)} ELSE BOOLEAN

\* the tool is called: const page = await getPage()
ScanCalled(nav, url, noAuto) ==
  /\ scan.stage = "idle"
  /\ nav \in navigateArgs(variant, url)
  /\ IF browser = "null"
       THEN /\ browser' = "open"
            /\ context' = "open"
            /\ pageRef' = 1
            /\ ctxPages' = <<1>>
            /\ made' = [browsers |-> 1, contexts |-> 1, pages |-> 1, ids |-> 1, got |-> 1]
            /\ page' = BlankPage
            /\ launches' = launches + 1
            /\ closesOfLaunch' = 0
       ELSE UNCHANGED <<browser, page, launches, closesOfLaunch, sessionVars>>
  /\ scan' = [NoScan EXCEPT !.stage = "called", !.navigate = nav, !.url = url,
                             !.before = page', !.noAuto = noAuto]
  /\ UNCHANGED <<driverVars, procVars, multi, drag, call, result, closing, closeResult,
                 closeCalls>>

\* the block before "1. Dismiss popups": the goto when there is one, then the
\* click on START or the jump to the step
ScanNavigates(gotoOk, landed) ==
  /\ scan.stage = "called"
  /\ LET goes  == callsGoto(variant, scan.navigate, scan.url, page)
         at    == IF goes THEN targetUrl(variant, scan.url) ELSE page
     IN  /\ (~gotoOk) => goes
         /\ landed \in (IF entersNavigation(variant, scan.navigate, scan.url)
                          THEN landings(variant, scan.url, at) ELSE {page})
         /\ page' = (IF gotoOk THEN landed ELSE page)
         /\ scan' = [scan EXCEPT !.goto = goes,
                                  !.stage = IF gotoOk THEN "scanned" ELSE "threw"]
  /\ UNCHANGED <<driverVars, procVars, sessionVars, multi, drag, browser, call, result,
                 closing, closeResult, launches, closesOfLaunch, closeCalls>>

ScanFrame ==
  UNCHANGED <<driverVars, procVars, sessionVars, multi, drag, browser, page, call,
              result, closing, closeResult, launches, closesOfLaunch, closeCalls>>

\* "3. Read page content + scan for codes": the first readPage and
\* scanForCodes, before any auto-action
ScanReads(ok) ==
  /\ scan.stage = "scanned"
  /\ scan' = [scan EXCEPT !.contentAt = 0,
                           !.stage = IF ~ok THEN "threw"
                                     ELSE IF scan.noAuto THEN "built" ELSE "read"]
  /\ ScanFrame

\* the five patterns of autoSolve, in the order it tries them
AutoKinds == <<"scroll", "wait", "click-reveal", "click-n", "hover">>

\* what one pattern can come to: the page text does not ask for it; the
\* action is done and pushed to actions; the page call of the action
\* rejects; the action is done and the waitForTimeout after it rejects (the
\* wait pattern has no call after its action)
AutoOutcomes(kind) ==
  {"noMatch", "recorded", "rejects"}
    \cup (IF kind = "wait" THEN {} ELSE {"doneThenRejects"})

\* hover is the one pattern wrapped in try { ... } catch {}
swallows(kind) == kind = "hover"

\* the action of the pattern has run on the page
performs(out) == out \in {"recorded", "doneThenRejects"}

\* autoSolve, one pattern at a time
AutoSolveStep(out) ==
  /\ scan.stage = "read"
  /\ out \in AutoOutcomes(AutoKinds[scan.at])
  /\ LET kind   == AutoKinds[scan.at]
         thrown == out \in {"rejects", "doneThenRejects"} /\ ~swallows(kind)
     IN  scan' = [scan EXCEPT
                    !.performed   = IF performs(out) THEN @ + 1 ELSE @,
                    !.autoActions = IF out = "recorded" THEN @ + 1 ELSE @,
                    !.at          = IF scan.at < Len(AutoKinds) THEN @ + 1 ELSE @,
                    !.stage       = IF thrown THEN "threw"
                                    ELSE IF scan.at = Len(AutoKinds) THEN "solved"
                                    ELSE "read"]
  /\ ScanFrame

\* if (autoActions.length > 0): dismissPopups, readPage, scanForCodes again
rescans(n) == n > 0

\* the re-scan after autoSolve, when there is one
ScanRescans(ok) ==
  /\ scan.stage = "solved"
  /\ (~ok) => rescans(scan.autoActions)
  /\ scan' = [scan EXCEPT
                 !.contentAt = IF rescans(scan.autoActions) THEN scan.performed ELSE @,
                 !.stage     = IF ok THEN "built" ELSE "threw"]
  /\ ScanFrame

\* the output is built from content and codes and returned
ScanReturns ==
  /\ scan.stage = "built"
  /\ scan' = [scan EXCEPT !.stage = "returned"]
  /\ ScanFrame

\* the call is over; what the auto-actions and other tools do before the
\* next call leaves the page anywhere
ScanOver(u) ==
  /\ scan.stage \in {"returned", "threw"}
  /\ page' = u
  /\ scan' = NoScan
  /\ UNCHANGED <<driverVars, procVars, sessionVars, multi, drag, browser, call, result,
                 closing, closeResult, launches, closesOfLaunch, closeCalls>>

ScanNext ==
  \/ \E nav, noAuto \in BOOLEAN : \E url \in PageUrls \cup {NoUrl} :
        ScanCalled(nav, url, noAuto)
  \/ \E gotoOk \in BOOLEAN : \E landed \in PageUrls \cup {BlankPage} :
        ScanNavigates(gotoOk, landed)
  \/ \E ok \in BOOLEAN : ScanReads(ok)
  \/ \E out \in {"noMatch", "recorded", "rejects", "doneThenRejects"} : AutoSolveStep(out)
  \/ \E ok \in BOOLEAN : ScanRescans(ok)
  \/ ScanReturns
  \/ \E u \in PageUrls : ScanOver(u)

\* the two scan tools of the repository
ScanInit == ToolsInit /\ variant # "pi"

\* calls of scan_page_for_code with any arguments on any page
ScanSpec == ScanInit /\ [][ScanNext]_vars

\* ---- the timers of an attempt (tanstack) ----------------------------------
WatchFrame ==
  UNCHANGED <<driverVars, proc, exitBy, race, browser, page, call, result, closing,
              closeResult, launches, closesOfLaunch, closeCalls, sessionVars, bodyVars>>

\* const timeoutHandle = setTimeout(...); const heartbeatHandle = setInterval(...)
ArmTimers ==
  /\ watch.phase = "loop"
  /\ watch.attempt < MaxWatched
  /\ watch' = [watch EXCEPT !.phase = "armed",
                            !.attempt = @ + 1,
                            !.timeoutHandles = @ \cup {watch.attempt + 1},
                            !.heartbeatHandles = @ \cup {watch.attempt + 1}]
  /\ WatchFrame

\* const stream = chat({...}) and the log line after it, between the arming
\* of the timers and the try whose finally clears them: an exception here
\* goes to the catch block of the loop
ChatCalled(ok) ==
  /\ watch.phase = "armed"
  /\ watch' = [watch EXCEPT !.phase = IF ok THEN "streaming" ELSE "loop"]
  /\ WatchFrame

\* the timeout of the running attempt fires while its stream is read
TimeoutFires ==
  /\ watch.phase = "streaming"
  /\ watch.attempt \in watch.timeoutHandles
  /\ watch' = [watch EXCEPT !.timeoutHandles = @ \ {watch.attempt}]
  /\ WatchFrame

\* finally { clearTimeout(timeoutHandle); clearInterval(heartbeatHandle) }:
\* the for-await is left by the end of the stream, by the abort or by an
\* exception
StreamOver(how) ==
  /\ watch.phase = "streaming"
  /\ watch' = [watch EXCEPT !.phase = IF how = "throws" THEN "loop" ELSE "classify",
                            !.timeoutHandles = @ \ {watch.attempt},
                            !.heartbeatHandles = @ \ {watch.attempt}]
  /\ WatchFrame

\* the code after the finally: back to the loop head, or out of the loop
Classified(next) ==
  /\ watch.phase = "classify"
  /\ watch' = [watch EXCEPT !.phase = next]
  /\ WatchFrame

\* the while test fails
WhileFails ==
  /\ watch.phase = "loop"
  /\ watch' = [watch EXCEPT !.phase = "done"]
  /\ WatchFrame

\* a pending timer runs its callback at an await: one that is not of the
\* attempt whose stream is being read runs late (a setTimeout runs once, a
\* setInterval stays)
TimerRunsLate(id) ==
  /\ watch.phase \in {"streaming", "loop", "done"}
  /\ id \in watch.timeoutHandles \cup watch.heartbeatHandles
  /\ ~(watch.phase = "streaming" /\ id = watch.attempt)
  /\ watch' = [watch EXCEPT !.timeoutHandles = @ \ {id}, !.late = TRUE]
  /\ WatchFrame

TimerNext ==
  \/ ArmTimers
  \/ \E ok \in BOOLEAN : ChatCalled(ok)
  \/ TimeoutFires
  \/ \E how \in {"ends", "aborted", "throws"} : StreamOver(how)
  \/ \E next \in {"loop", "done"} : Classified(next)
  \/ WhileFails
  \/ \E id \in 1..MaxWatched : TimerRunsLate(id)

\* the attempts of the tanstack driver
TimerInit == ToolsInit /\ variant = "tanstack"

TimerSpec == TimerInit /\ [][TimerNext]_vars

\* ---- tools/browser.ts under concurrent callers ---------------------------
RaceFrame ==
  UNCHANGED <<driverVars, proc, exitBy, watch, browser, page, call, result, closing,
              closeResult, launches, closesOfLaunch, closeCalls, sessionVars, bodyVars>>

\* the browser a page belongs to
browserOf(r, p) == r.owner[r.home[p]]

\* page.isClosed(): the pages of a closed browser are closed
isClosed(r, p) == browserOf(r, p) \in r.closed

\* ctx.pages()[0], 0 when ctx.pages() is empty: the pages of the context,
\* oldest first; a closed context has none
firstPage(r, c) ==
  LET ps == {p \in 1..Len(r.home) : r.home[p] = c}
  IN  IF r.owner[c] \in r.closed \/ ps = {} THEN 0
      ELSE CHOOSE p \in ps : \A q \in ps : p <= q

\* getPage after `const ctx = await getContext()`: ctx is what the module's
\* context variable held when getContext returned; ctx.pages() of null
\* throws, the first page of the context is stored and returned, and without
\* one ctx.newPage() is awaited
withContext(r, i, ctx) ==
  IF ctx = 0 THEN [r EXCEPT !.th[i].pc = "threw"]
  ELSE IF firstPage(r, ctx) # 0
    THEN [r EXCEPT !.page = firstPage(r, ctx), !.th[i].pc = "done",
                   !.th[i].got = firstPage(r, ctx)]
    ELSE [r EXCEPT !.th[i].pc = "newPage", !.th[i].ctx = ctx]

\* a caller calls getPage(): the code up to its first await. The page is
\* returned when the module has an open one; else getContext returns the
\* context the module has, or getBrowser returns the browser it has and
\* b.newContext() is awaited, or chromium.launch() is awaited
GetPageCalled(i) ==
  /\ race.th[i].pc = "idle"
  /\ race.gets < MaxGets
  /\ LET r == [race EXCEPT !.gets = @ + 1, !.th[i].got = 0,
                           !.th[i].early = (race.born = << >>),
                           !.th[i].after = race.closes]
     IN  race' =
           IF ~needsPage(r.page, {p \in 1..Len(r.home) : ~isClosed(r, p)})
             THEN [r EXCEPT !.th[i].pc = "done", !.th[i].got = r.page]
           ELSE IF ~needsContext(IF r.context = 0 THEN "null" ELSE "open")
             THEN withContext(r, i, r.context)
           ELSE IF ~needsBrowser(IF r.browser = 0 THEN "null" ELSE "open")
             THEN [r EXCEPT !.th[i].pc = "newContext", !.th[i].b = r.browser]
           ELSE [r EXCEPT !.th[i].pc = "launch"]
  /\ RaceFrame

\* browser = await chromium.launch(...); return browser; and in getContext
\* b.newContext() is called on it
LaunchSettles(i, ok) ==
  /\ race.th[i].pc = "launch"
  /\ race' =
       IF ok
         THEN [race EXCEPT !.born = Append(@, race.closes),
                           !.browser = Len(race.born) + 1,
                           !.th[i].pc = "newContext",
                           !.th[i].b = Len(race.born) + 1]
         ELSE [race EXCEPT !.th[i].pc = "threw"]
  /\ RaceFrame

\* context = await b.newContext(...), then context.addInitScript(...) is
\* called; on a browser that is closed newContext rejects
NewContextSettles(i, ok) ==
  /\ race.th[i].pc = "newContext"
  /\ ok => race.th[i].b \notin race.closed
  /\ race' =
       IF ok
         THEN [race EXCEPT !.owner = Append(@, race.th[i].b),
                           !.context = Len(race.owner) + 1,
                           !.th[i].pc = "addInitScript",
                           !.th[i].c = Len(race.owner) + 1]
         ELSE [race EXCEPT !.th[i].pc = "threw"]
  /\ RaceFrame

\* await context.addInitScript(...) settles; return context gives what the
\* module's variable holds by now, and getPage goes on with it
AddInitScriptSettles(i, ok) ==
  /\ race.th[i].pc = "addInitScript"
  /\ ok => race.owner[race.th[i].c] \notin race.closed
  /\ race' = IF ok THEN withContext(race, i, race.context)
             ELSE [race EXCEPT !.th[i].pc = "threw"]
  /\ RaceFrame

\* page = await ctx.newPage(); page.on("dialog", ...); return page
NewPageSettles(i, ok) ==
  /\ race.th[i].pc = "newPage"
  /\ ok => race.owner[race.th[i].ctx] \notin race.closed
  /\ race' =
       IF ok
         THEN [race EXCEPT !.home = Append(@, race.th[i].ctx),
                           !.page = Len(race.home) + 1,
                           !.th[i].pc = "done",
                           !.th[i].got = Len(race.home) + 1]
         ELSE [race EXCEPT !.th[i].pc = "threw"]
  /\ RaceFrame

\* the caller has its page, or the exception, and is free to call again
CallerGoesOn(i) ==
  /\ race.th[i].pc \in {"done", "threw"}
  /\ race' = [race EXCEPT !.th[i].pc = "idle", !.th[i].b = 0, !.th[i].c = 0,
                          !.th[i].ctx = 0]
  /\ RaceFrame

\* closeBrowser() is called: if (browser) await browser.close()
CloseCalled ==
  /\ race.closer = 0
  /\ race.closeCalls < MaxCloses
  /\ race' = [race EXCEPT !.closeCalls = @ + 1, !.closer = race.browser]
  /\ RaceFrame

\* browser.close() settles: browser = null; context = null; page = null. What
\* is pending on the closed browser rejects from here on; on a rejection of
\* the close the handles stay
CloseSettles(ok) ==
  /\ race.closer # 0
  /\ race' =
       IF ok
         THEN [race EXCEPT !.closed = @ \cup {race.closer}, !.closes = @ + 1,
                           !.browser = 0, !.context = 0, !.page = 0, !.closer = 0]
         ELSE [race EXCEPT !.closer = 0]
  /\ RaceFrame

RaceNext ==
  \/ \E i \in 1..MaxCallers : GetPageCalled(i)
  \/ \E i \in 1..MaxCallers : \E ok \in BOOLEAN : LaunchSettles(i, ok)
  \/ \E i \in 1..MaxCallers : \E ok \in BOOLEAN : NewContextSettles(i, ok)
  \/ \E i \in 1..MaxCallers : \E ok \in BOOLEAN : AddInitScriptSettles(i, ok)
  \/ \E i \in 1..MaxCallers : \E ok \in BOOLEAN : NewPageSettles(i, ok)
  \/ \E i \in 1..MaxCallers : CallerGoesOn(i)
  \/ CloseCalled
  \/ \E ok \in BOOLEAN : CloseSettles(ok)

\* tools/browser.ts is the same under every driver
RaceInit == ToolsInit /\ variant = "tanstack"

\* getPage called by several callers whose awaits interleave, and closeBrowser
RaceSpec == RaceInit /\ [][RaceNext]_vars

\* ---- the process: the loop, the summary, the end ---------------------------
\* a faulty escalate that asks for the page
usesPageAlways(t) == TRUE

\* the tool body starts with const page = await getPage(); the three
\* escalate bodies have no such call
usesPage(t) == t # "escalate"

\* the tool that executes calls getPage() and there is no browser yet:
\* chromium.launch()
ToolLaunchesBrowser ==
  /\ proc = "main" /\ pc = "running"
  /\ pending \in ToolNames /\ usesPage(pending)
  /\ browser = "null"
  /\ browser' = "open"
  /\ context' = "open"
  /\ pageRef' = 1
  /\ ctxPages' = <<1>>
  /\ made' = [browsers |-> 1, contexts |-> 1, pages |-> 1, ids |-> 1, got |-> 1]
  /\ page' = BlankPage
  /\ launches' = launches + 1
  /\ closesOfLaunch' = 0
  /\ UNCHANGED <<driverVars, procVars, bodyVars, call, result, closing, closeResult,
                 closeCalls>>

\* a faulty driver that ends the process where the regression ceiling is hit
summaryUnlessCeiling(o) == o.kind # "Regressed"

\* every break of the loop and the failing while test lead to the statement
\* after the loop, whatever the last outcome was
reachesSummary(o) == TRUE

\* the loop is left: the statements from "Final summary" to the last row of
\* the per-step list
PrintSummary ==
  /\ proc = "main" /\ pc = "done" /\ reachesSummary(lastOutcome)
  /\ proc' = "summary"
  /\ UNCHANGED <<driverVars, exitBy, watch, race, browser, page, call, result, closing, closeResult,
                 launches, closesOfLaunch, closeCalls, sessionVars, bodyVars>>

\* what main() does with the browser after the summary: tanstack awaits
\* closeBrowser(), pi and opencode print "Browser left open for debugging"
closesAfterSummary(v) == v = "tanstack"

\* await closeBrowser() at the end of main()
MainClosesBrowser ==
  /\ proc = "summary" /\ closesAfterSummary(variant)
  /\ closeCalls = 0
  /\ CloseBrowser

\* browser.close() of that call settles
MainCloseSettles(ok) == proc = "summary" /\ BrowserCloseSettles(ok)

\* main().catch: closeBrowser().catch(() => {}) after closeBrowser rejected
CatchClosesBrowser ==
  /\ proc = "summary" /\ closesAfterSummary(variant)
  /\ closeCalls = 1 /\ closeResult = "threw"
  /\ CloseBrowser

\* the promise of main() is settled and its catch handler, if it ran, is over
MainReturns ==
  /\ proc = "summary" /\ ~closing
  /\ closesAfterSummary(variant) =>
        \/ closeResult \in {"closed", "returned"}
        \/ closeCalls = 2
  /\ proc' = "returned"
  /\ UNCHANGED <<driverVars, exitBy, watch, race, browser, page, call, result, closing, closeResult,
                 launches, closesOfLaunch, closeCalls, sessionVars, bodyVars>>

\* nothing keeps the event loop alive: the process ends by itself; an open
\* browser keeps it alive ("Press Ctrl+C to exit")
EventLoopEmpties ==
  /\ proc = "returned" /\ browser = "null"
  /\ proc' = "exited"
  /\ exitBy' = "natural"
  /\ UNCHANGED <<watch, race>>
  /\ UNCHANGED <<driverVars, browser, page, call, result, closing, closeResult,
                 launches, closesOfLaunch, closeCalls, sessionVars, bodyVars>>

Signals == {"SIGINT", "SIGTERM"}

\* a signal arrives: no process.on handler is installed, the process ends at
\* once
Signal(sig) ==
  /\ proc # "exited"
  /\ proc' = "exited"
  /\ exitBy' = sig
  /\ UNCHANGED <<watch, race>>
  /\ UNCHANGED <<driverVars, browser, page, call, result, closing, closeResult,
                 launches, closesOfLaunch, closeCalls, sessionVars, bodyVars>>

\* the loop runs while the process is in it
LoopStep == proc = "main" /\ Next

ExitNext ==
  \/ LoopStep
  \/ ToolLaunchesBrowser
  \/ PrintSummary
  \/ MainClosesBrowser
  \/ \E ok \in BOOLEAN : MainCloseSettles(ok)
  \/ CatchClosesBrowser
  \/ MainReturns
  \/ EventLoopEmpties
  \/ \E sig \in Signals : Signal(sig)

\* a run of the program from main() to the end of the process
ExitSpec == Init /\ [][ExitNext]_vars

\* the steps of main() and of the event loop when no signal arrives
RunNext ==
  \/ LoopStep
  \/ ToolLaunchesBrowser
  \/ PrintSummary
  \/ MainClosesBrowser
  \/ \E ok \in BOOLEAN : MainCloseSettles(ok)
  \/ CatchClosesBrowser
  \/ MainReturns
  \/ EventLoopEmpties

\* a run that no signal interrupts: main() goes on while it has a step to take
RunSpec == Init /\ [][RunNext]_vars /\ WF_vars(RunNext)

\* ---- properties -----------------------------------------------------------
\* const afterUrl of the attempt that runs
afterUrl == afterUrlOf(variant, timings, sharedState)

\* the completion signal of the attempt that runs
completionFlag == completionSeen(variant, timings, sharedState)

\* a step in which an attempt ends: the turn is over, or the session could
\* not be created and the catch block recorded the failure
AttemptEnds ==
  \/ pc = "running" /\ pc' # "running"
  \/ pc = "loop" /\ challengeResults' # challengeResults

\* the outcomes the URL evaluator gives
UrlOutcomes == {"Completed", "Advanced", "Regressed", "Stalled"}

\* the last row of challengeResults is a failure of step s
FailureRecorded(rows, s) ==
  /\ Len(rows) > 0
  /\ rows[Len(rows)].step = s
  /\ ~rows[Len(rows)].success

\* the classification as the specification words it: any step number n
\* below s is a regression, any above is an advance
statedOutcome(url, completion, s) ==
  LET n == getStepFromUrl(url)
  IN  IF completion \/ IncludesCompletionWord(url) THEN Outcome("Completed", NoStep)
      ELSE IF n # NoStep /\ n > s THEN Outcome("Advanced", n)
      ELSE IF n # NoStep /\ n < s THEN Outcome("Regressed", n)
      ELSE Outcome("Stalled", NoStep)

\* C1: every attempt that reaches the URL evaluator is classified from its
\* urlAfter by priority: Completed on a completion signal, else Advanced(n)
\* when n > s, Regressed(n) when n < s, Stalled when n = s or no URL.
C1_ClassifiedByPriority ==
  [][(AttemptEnds /\ lastOutcome'.kind \in UrlOutcomes)
       => lastOutcome' = statedOutcome(afterUrl, completionFlag, currentStep)]_vars

\* C2: the outcome of an attempt whose model call returned is a function of
\* its step and of the URL / completion values captured from the browser
\* alone, whatever the model's response was (an empty one included).
\* (an empty response is recorded like a Stalled attempt: it agrees with the
\* URLs only when they say Stalled)
C2_OutcomeFromUrlsOnly ==
  [][(AttemptEnds /\ lastOutcome'.kind \notin {"Errored", "Escalated"})
       => LET o == classify(afterUrl, completionFlag, currentStep)
          IN  IF lastOutcome'.kind = "NoResponse"
                THEN o.kind = "Stalled"
                ELSE lastOutcome' = o]_vars

\* C3: after every attempt in which a URL was observed, whatever its
\* outcome (a skip included), lastKnownStep is the step of the last URL
\* observed.
C3_StepIsLastObservedUrl ==
  [][(AttemptEnds /\ lastSeenStep # NoStep) => lastKnownStep' = lastSeenStep]_vars

\* C4: a Stalled or Errored attempt at the last tier appends a failure row
\* for its step, moves lastKnownStep to exactly currentStep + 1 and resets
\* the tier to 0; the next attempt runs for that step.
C4_ExhaustedLadderSkips ==
  [][(/\ AttemptEnds
      /\ lastOutcome'.kind \in {"Stalled", "Errored"}
      /\ attemptForStep + 1 >= LadderLength(variant))
       => /\ Len(challengeResults') = Len(challengeResults) + 1
          /\ FailureRecorded(challengeResults', currentStep)
          /\ lastKnownStep' = currentStep + 1
          /\ attemptForStep' = 0
          /\ pc' = "loop"
          /\ (lastKnownStep' <= finalStep => currentStep' = currentStep + 1)]_vars

\* C4 witness: the two-tier driver skipped a step after its last tier failed
C4_Witness ==
  /\ variant = "pi" /\ pc = "loop"
  /\ lastOutcome.kind \in {"Stalled", "Errored"}
  /\ attemptForStep = 0
  /\ Len(challengeResults) > 0
  /\ challengeResults[Len(challengeResults)].model = 1
  /\ ~challengeResults[Len(challengeResults)].success
  /\ lastKnownStep = challengeResults[Len(challengeResults)].step + 1

\* C5 as stated: on the same step the tier never decreases, and it
\* decreases only with an Advanced, Completed or Regressed outcome.
C5_TierResetOnlyOnProgress ==
  [][/\ (lastKnownStep' = lastKnownStep => attemptForStep' >= attemptForStep)
     /\ (attemptForStep' < attemptForStep
           => lastOutcome'.kind \in {"Advanced", "Completed", "Regressed"})]_vars

\* C5 (amended): on the same step the tier never decreases; it decreases
\* only to 0, and only when the attempt is Advanced or Regressed or when the
\* step is skipped to currentStep + 1 after the last tier.
C5_TierNeverDecreasesOnStep ==
  [][/\ (lastKnownStep' = lastKnownStep => attemptForStep' >= attemptForStep)
     /\ (attemptForStep' < attemptForStep
           => /\ attemptForStep' = 0
              /\ \/ lastOutcome'.kind \in {"Advanced", "Regressed"}
                 \/ lastKnownStep' = currentStep + 1)]_vars

\* C5 witness: a second attempt on the same step runs one tier up, after
\* the first tier's failure on that step
C5_Witness ==
  /\ variant = "pi" /\ pc = "running"
  /\ attemptForStep = 1
  /\ FailureRecorded(challengeResults, currentStep)
  /\ challengeResults[Len(challengeResults)].model = 0

\* C6: an attempt that ends Escalated appends no row; the loop goes on with
\* the same step at the next tier.
C6_EscalatedRetriesNextTier ==
  [][(AttemptEnds /\ lastOutcome'.kind = "Escalated")
       => /\ challengeResults' = challengeResults
          /\ lastKnownStep' = currentStep
          /\ currentStep' = currentStep
          /\ attemptForStep' = attemptForStep + 1
          /\ pc' = "loop"]_vars

\* C6 witness: an escalated attempt left the loop at the second tier
C6_Witness ==
  /\ pc = "loop"
  /\ lastOutcome.kind = "Escalated"
  /\ attemptForStep = 1
  /\ currentStep = lastKnownStep

\* C7: when escalate completed before any successful submission of the
\* turn, the attempt ends Escalated, whatever tool calls complete afterwards.
C7_EscalateDecidesOutcome ==
  [][(AttemptEnds /\ escalateFirst) => lastOutcome'.kind = "Escalated"]_vars

\* C7 witness: after the escalate, a submit of the same turn captured a URL
\* past the attempt's step
C7_Witness ==
  /\ pc = "running"
  /\ escalateFirst
  /\ HasUrl(afterUrl)
  /\ getStepFromUrl(afterUrl) > currentStep

\* C8: a submit result whose URL is past the attempt's step aborts the turn
\* at once, and the attempt is classified Advanced.
C8_AdvanceAbortsTurn ==
  [][/\ (/\ pc = "running" /\ pc' = "running"
         /\ pending = "enter_code" /\ pending' = NoTool
         /\ lastSeenStep' > currentStep) => aborted'
     /\ (AttemptEnds /\ lastSeenStep > currentStep /\ lastOutcome'.kind # "Errored")
          => lastOutcome'.kind = "Advanced"]_vars

C10_RegressedCorrectsPosition ==
  [][(AttemptEnds /\ lastOutcome'.kind = "Regressed")
       => /\ lastOutcome'.n = getStepFromUrl(afterUrl)
          /\ lastOutcome'.n < currentStep
          /\ lastKnownStep' = lastOutcome'.n
          /\ attemptForStep' = 0
          /\ totalRegressions' = totalRegressions + 1
          /\ challengeResults' = challengeResults]_vars

\* C10 witness: a regression from the second tier brought the loop back to
\* an earlier step at the first tier
C10_Witness ==
  /\ pc = "loop"
  /\ lastOutcome.kind = "Regressed"
  /\ lastKnownStep = lastOutcome.n
  /\ attemptForStep = 0
  /\ totalRegressions >= 1

\* C11 as stated: the run is stopped by a regression exactly when it is the
\* (c+1)-th Regressed outcome in a row.
C11_StopsAfterConsecutiveRegressions ==
  [][(AttemptEnds /\ lastOutcome'.kind = "Regressed")
       => (pc' = "done" <=> regressionsInARow' = RegressionCeiling + 1)]_vars

\* C11 (amended): totalRegressions counts the Regressed outcomes of the whole
\* run and is never reset; the run is stopped by a regression exactly when
\* it is the (c+1)-th Regressed outcome of the run, in a row or not.
C11_StopsAtCeilingPlusOneRegressions ==
  [][/\ (AttemptEnds /\ lastOutcome'.kind = "Regressed")
          => /\ totalRegressions' = totalRegressions + 1
             /\ (pc' = "done" <=> totalRegressions' = RegressionCeiling + 1)
     /\ ~(AttemptEnds /\ lastOutcome'.kind = "Regressed")
          => totalRegressions' = totalRegressions]_vars

\* C11 witness: the run was stopped by its (c+1)-th regression, which
\* followed an attempt that was not a regression
C11_Witness ==
  /\ pc = "done"
  /\ lastOutcome.kind = "Regressed"
  /\ totalRegressions = RegressionCeiling + 1
  /\ regressionsInARow < totalRegressions

\* C12: an Advanced(n) outcome appends exactly one success row for the step
\* the attempt was launched on, sets lastKnownStep to n, the step read from
\* the captured URL (not currentStep + 1), and resets the tier to 0.
C12_AdvancedRecordsAndMoves ==
  [][(AttemptEnds /\ lastOutcome'.kind = "Advanced")
       => /\ challengeResults' = Append(challengeResults,
                                         [step |-> currentStep, success |-> TRUE,
                                          model |-> getModelForAttempt(variant, attemptForStep)])
          /\ lastOutcome'.n = getStepFromUrl(afterUrl)
          /\ lastOutcome'.n > currentStep
          /\ lastKnownStep' = lastOutcome'.n
          /\ attemptForStep' = 0]_vars

\* C12 witness: the second tier advanced by more than one step
C12_Witness ==
  /\ lastOutcome.kind = "Advanced"
  /\ Len(challengeResults) > 0
  /\ challengeResults[Len(challengeResults)].success
  /\ challengeResults[Len(challengeResults)].model = 1
  /\ lastKnownStep = lastOutcome.n
  /\ lastKnownStep > challengeResults[Len(challengeResults)].step + 1
  /\ attemptForStep = 0

\* C13: an attempt classified Completed appends a success row and leaves
\* the loop; once the loop is left no attempt is started and no row is
\* appended any more.
C13_CompletedEndsRun ==
  [][/\ (AttemptEnds /\ lastOutcome'.kind = "Completed")
          => /\ challengeResults' = Append(challengeResults,
                                            [step |-> currentStep, success |-> TRUE,
                                             model |-> getModelForAttempt(variant, attemptForStep)])
             /\ pc' = "done"
     /\ (pc = "done" /\ lastOutcome.kind = "Completed")
          => /\ pc' = "done"
             /\ challengeResults' = challengeResults]_vars

\* C13 witness: the run ended on a completion while steps were left to do
C13_Witness ==
  /\ pc = "done"
  /\ lastOutcome.kind = "Completed"
  /\ lastKnownStep <= finalStep
  /\ Len(challengeResults) > 0
  /\ challengeResults[Len(challengeResults)].success
  /\ challengeResults[Len(challengeResults)].step = lastKnownStep

\* a step in which the catch block of the driver runs
Throws == TsThrows \/ PiPromptThrows \/ OcPromptThrows \/ OcSessionCreateFails

\* the tier and the step a Stalled outcome of the running attempt gives
tierAfterStall ==
  IF attemptForStep + 1 >= LadderLength(variant) THEN 0 ELSE attemptForStep + 1

stepAfterStall ==
  IF attemptForStep + 1 >= LadderLength(variant) THEN currentStep + 1 ELSE lastKnownStep

\* the turn was aborted for an escalation, or escalate was requested at the
\* first tier and no URL was captured (the two-tier and the event-loop driver)
EscalationPending ==
  /\ variant # "tanstack"
  /\ \/ abortedForEscalate
     \/ /\ IF variant = "pi" THEN sharedState.escalateRequested
                              ELSE timings.escalateRequested
        /\ attemptForStep = 0
        /\ ~HasUrl(afterUrl)

\* what C14 asks of a caught exception
LikeStalled ==
  /\ challengeResults' = Append(challengeResults,
                                 [step |-> currentStep, success |-> FALSE,
                                  model |-> getModelForAttempt(variant, attemptForStep)])
  /\ attemptForStep' = tierAfterStall
  /\ lastKnownStep' = stepAfterStall
  /\ totalRegressions' = totalRegressions
  /\ pc' = "loop"

\* C14 as stated: every caught exception appends exactly one failure row and
\* moves the tier and the step as a Stalled outcome would; the loop goes on.
C14_ExceptionLikeStalled ==
  [][Throws => LikeStalled]_vars

\* C14 (amended): a caught exception appends exactly one failure row and
\* moves the tier and the step as a Stalled outcome would, unless an
\* escalation is pending: then no row is appended and the step is retried
\* at tier 1.  The loop goes on in both cases.
C14_ExceptionLikeStalledUnlessEscalating ==
  [][Throws => IF EscalationPending
                 THEN /\ challengeResults' = challengeResults
                      /\ attemptForStep' = 1
                      /\ lastKnownStep' = lastKnownStep
                      /\ pc' = "loop"
                 ELSE LikeStalled]_vars

\* C14 witness: an exception at the first tier left a failure row and the
\* loop goes on with the same step one tier up
C14_Witness ==
  /\ pc = "loop"
  /\ lastOutcome.kind = "Errored"
  /\ FailureRecorded(challengeResults, lastKnownStep)
  /\ challengeResults[Len(challengeResults)].model = 0
  /\ attemptForStep = 1

\* C15: while lastKnownStep has not passed the last step, the loop is left
\* only on a Completed outcome, on an Advanced outcome of a single-step run,
\* or on the regression that exceeds the ceiling; an attempt that ends
\* Stalled, Errored or Escalated (or without a response or a model) goes
\* back to the loop head.
C15_FailuresNeverEndRun ==
  [][/\ (pc # "done" /\ pc' = "done")
          => \/ pc = "loop" /\ lastKnownStep > finalStep
             \/ lastOutcome'.kind = "Completed"
             \/ lastOutcome'.kind = "Advanced" /\ only
             \/ /\ lastOutcome'.kind = "Regressed"
                /\ totalRegressions' > RegressionCeiling
     /\ (/\ pc = "running" \/ (pc = "loop" /\ lastKnownStep <= finalStep)
         /\ lastOutcome'.kind \in {"Stalled", "Errored", "Escalated",
                                   "NoResponse", "NoModel"})
          => pc' = "loop"]_vars

\* C15 witness: after two failed attempts in a row the loop is still on
C15_Witness ==
  /\ pc = "loop"
  /\ Len(challengeResults) = 2
  /\ ~challengeResults[1].success
  /\ ~challengeResults[2].success
  /\ lastKnownStep <= finalStep

loopRank ==
  LET tiersLeft == LadderLength(variant) + 1 - attemptForStep
      stepsLeft == finalStep + 1 - lastKnownStep
      regressionsLeft == RegressionCeiling + 1 - totalRegressions
  IN  (regressionsLeft * (MaxChallenges + 2) + stepsLeft) * 4 + tiersLeft

\* every way back to the loop head leaves strictly less to do, so the
\* attempts of a run are bounded whatever the bounds of the exploration
LoopRankDecreases ==
  [][pc' = "loop" => (loopRank' < loopRank /\ loopRank' >= 0)]_vars

C17_EscalateOnlyBelowLastTier ==
  pc = "running"
    => LET lastTier == attemptForStep >= LadderLength(variant) - 1
       IN  /\ ("escalate" \in tools(variant, attemptForStep)) <=> ~lastTier
           /\ pending = "escalate" => ~lastTier
           /\ pending # NoTool => pending \in tools(variant, attemptForStep)

\* C17 witness: after an escalation from the first tier, the attempt at the
\* last tier has a tool call running
C17_Witness ==
  /\ variant = "pi" /\ pc = "running"
  /\ attemptForStep = 1
  /\ challengeResults = << >>
  /\ currentStep = 1
  /\ pending # NoTool
  /\ "escalate" \notin tools(variant, attemptForStep)
  /\ "escalate" \in tools(variant, 0)

\* C18: a submit whose page URL after the submission equals the URL before
\* it gives a failure result; one whose URL differs gives a success result
\* that carries exactly the URL observed after the submission.
C18_SubmitResultFollowsUrl ==
  (result.tool = "enter_code" /\ result.submitted)
    => IF result.observed = result.beforeUrl
         THEN result.kind = "error"
         ELSE result.kind = "ok" /\ result.url = result.observed

\* C19: no tool invocation ends in an exception: every internal failure
\* comes back as an error result.
C19_NoExceptionEscapes == result.kind # "exception"

\* C20: a closeBrowser call made when no browser is open does nothing and
\* returns; over any sequence of calls the browser of one launch is closed
\* at most once.
C20_CloseBrowserIdempotent ==
  [][/\ closesOfLaunch' <= 1
     /\ (closeCalls' # closeCalls /\ browser = "null")
          => /\ closeResult' = "returned"
             /\ ~closing'
             /\ browser' = "null"
             /\ closesOfLaunch' = closesOfLaunch]_vars

\* C20 witness: the call after a close returned without touching a browser
C20_Witness ==
  /\ closeCalls >= 2
  /\ closeResult = "returned"
  /\ closesOfLaunch = 1
  /\ browser = "null"

\* C21: a process that launched the browser and has ended called closeBrowser
\* before, whether it ended by itself or by SIGINT / SIGTERM
C21_ClosedBeforeExit ==
  (proc = "exited" /\ launches > 0) => closeCalls > 0

\* a getPage() call returns the page
GetPageReturns == call.stage = "called" /\ call'.stage = "started"

C23_OneOutcomePerAction ==
  multi.stage = "returned" =>
    /\ Len(multi.results) = Len(multi.actions)
    /\ \A i \in 1..Len(multi.results) : multi.results[i].of = i

\* the strategies tried for pair i are the first ones of the auto order, they
\* end with the one that succeeded, and all four were tried when none did
TriedInOrder(i) ==
  LET t == drag.tried[i]
  IN  /\ Len(t) <= Len(AutoOrder) /\ t = SubSeq(AutoOrder, 1, Len(t))
      /\ drag.won[i] # "none" => (t # << >> /\ t[Len(t)] = drag.won[i])
      /\ drag.won[i] = "none" => t = AutoOrder

\* C24: when drag_and_drop returns in auto mode, every pair was taken through
\* react, dataTransfer, mouse, dragTo in this order up to the first strategy
\* that succeeded for it, and the result names that strategy
C24_AutoTriesInOrderUntilSuccess ==
  (drag.stage = "returned" /\ drag.strategy = "auto") =>
    /\ \A i \in 1..drag.pairs : TriedInOrder(i)
    /\ drag.report \in {"react:ok", "pairs"}

\* the escalate tool has executed and the attempt goes on
EscalateInvoked == pending = "escalate" /\ pending' = NoTool /\ pc' = "running"

\* C25: while escalate executes the browser and its page are not touched, and
\* its execution leaves the captured URL, the current step, the tier and the
\* result rows as they were
C25_EscalateOnlySignals ==
  [][/\ pending = "escalate" =>
          UNCHANGED <<browser, context, pageRef, ctxPages, page, launches>>
     /\ EscalateInvoked =>
          /\ afterUrl' = afterUrl
          /\ UNCHANGED <<currentStep, lastKnownStep, attemptForStep, challengeResults>>
          /\ timings'.escalateRequested \/ sharedState'.escalateRequested]_vars

\* C25 witness: escalate has executed in an attempt that had launched the
\* browser and captured a URL before
C25_Witness ==
  /\ pc = "running" /\ pending = NoTool
  /\ timings.escalateRequested \/ sharedState.escalateRequested
  /\ browser = "open"
  /\ HasUrl(afterUrl)
  /\ proc = "main"

\* C26: scan_page_for_code has called page.goto only in a call that allowed
\* navigation and gave a URL other than the one the page was on
C26_NavigatesOnlyWhenAllowedAndDifferent ==
  scan.goto => (scan.navigate /\ HasUrl(scan.url) /\ scan.url # scan.before)

\* an attempt is launched
AttemptLaunched == pc = "loop" /\ pc' = "running"

\* C27: the first attempt launched in the run gets the navigate-and-solve
\* instruction and no other does; an attempt gets the solve-in-place
\* instruction only after a scan of an earlier attempt has put the browser on
\* the challenge
C27_NavigateFirstThenInPlace ==
  [][AttemptLaunched =>
       /\ instruction' = "navigate" <=> instruction = "none"
       /\ instruction' = "inPlace" => positioned]_vars

\* a run started with --step
Targeted == targetStep # NoTarget

\* C28: in a run started with --step the driver leaves the loop in the step
\* in which an attempt is first classified Advanced, and no attempt is
\* launched on a step past the targeted one.
C28_SingleStepStopsAfterAdvanced ==
  [][Targeted
       => /\ (AttemptEnds /\ lastOutcome'.kind = "Advanced") => pc' = "done"
          /\ AttemptLaunched => currentStep' <= targetStep]_vars

\* the step in which the timer of the running attempt fires
TimerFires == variant = "tanstack" /\ pc = "running" /\ ~timedOut /\ timedOut'

C30_SummaryOnEveryLoopEnd ==
  /\ (pc = "done" ~> proc # "main")
  /\ [][(proc = "main" /\ proc' # "main") => (pc = "done" /\ proc' = "summary")]_vars

\* C30 witness: the summary of a run that hit the regression ceiling and
\* solved no step
C30_Witness ==
  /\ proc = "summary"
  /\ lastOutcome.kind = "Regressed"
  /\ totalRegressions > RegressionCeiling
  /\ Len(challengeResults) > 0
  /\ \A i \in 1..Len(challengeResults) : ~challengeResults[i].success

\* the URL the running attempt would be classified from
keptUrl == afterUrlOf(variant, timings, sharedState)

\* C31: within an attempt, a kept URL that carries a step number is replaced
\* only by a URL whose step number is strictly higher.
C31_KeepsHighestStepUrl ==
  [][(pc = "running" /\ pc' = "running" /\ getStepFromUrl(keptUrl) # NoStep
        /\ keptUrl' # keptUrl)
       => getStepFromUrl(keptUrl') > getStepFromUrl(keptUrl)]_vars

\* C32: totalRegressions never decreases in a run: an attempt that ends with
\* any outcome but Regressed, a skip and a launch included, leaves it as it is.
C32_RegressionCountMonotonic ==
  [][/\ totalRegressions' >= totalRegressions
     /\ lastOutcome'.kind # "Regressed" => totalRegressions' = totalRegressions]_vars

\* C32 witness: an attempt advanced after a regression and the count of the
\* regression still stands
C32_Witness ==
  /\ lastOutcome.kind = "Advanced"
  /\ totalRegressions = 1
  /\ Len(challengeResults) > 0
  /\ challengeResults[Len(challengeResults)].success

\* C33: a scan that returns after at least one auto-action ran on the page
\* returns the content and the codes read after the last of them.
C33_ReturnsContentAfterAutoActions ==
  (scan.stage = "returned" /\ scan.performed > 0) => scan.contentAt = scan.performed

\* C34: every attempt is launched with a tier index inside the ladder, so
\* getModelForAttempt gives the model at that index and clamps nothing.
C34_TierWithinLadder ==
  [][AttemptLaunched
       => /\ attemptForStep \in 0 .. LadderLength(variant) - 1
          /\ getModelForAttempt(variant, attemptForStep) = attemptForStep]_vars

\* C34 witness: an attempt runs on the last tier of a ladder of two, reached
\* with no failure recorded (by escalation, or past a model that was not found)
C34_Witness ==
  /\ pc = "running"
  /\ attemptForStep = LadderLength(variant) - 1
  /\ attemptForStep > 0
  /\ challengeResults = << >>

\* the attempt that ends in this step is recorded as a success
RecordedSuccess ==
  /\ Len(challengeResults') = Len(challengeResults) + 1
  /\ challengeResults'[Len(challengeResults')].success

\* C35: an attempt launched with the browser on a known step is recorded as
\* a success exactly when its results showed the browser on a higher step
\* than that one, or on the completion page.
C35_SuccessIffBrowserMovedUp ==
  [][(AttemptEnds /\ pc = "running" /\ seen.startedOn # NoStep)
       => (RecordedSuccess <=> (seen.highest > seen.startedOn \/ seen.completion))]_vars

\* C36: an attempt in which a scan reported the completion page, and which
\* ends without an exception, is classified Completed, whatever tool results
\* came after that scan.
C36_CompletionSticks ==
  [][(AttemptEnds /\ pc = "running" /\ seen.scanCompleted
        /\ lastOutcome'.kind # "Errored")
       => lastOutcome'.kind = "Completed"]_vars

\* C37: a timeout or a heartbeat is pending only for the attempt that runs,
\* between its arming and the end of its stream, and no timer has run its
\* callback at another time.
C37_TimersClearedWithAttempt ==
  /\ watch.timeoutHandles \cup watch.heartbeatHandles
       \subseteq (IF watch.phase \in {"armed", "streaming"} THEN {watch.attempt} ELSE {})
  /\ ~watch.late

\* C38: when two callers called getPage before any browser launch had
\* finished and both were given a page, one browser and one context have
\* been made and the two pages are the same one
C38_ConcurrentGetPageSharesSession ==
  \A i, j \in 1..MaxCallers :
    (/\ i # j
     /\ race.closes = 0
     /\ race.th[i].early /\ race.th[i].got # 0
     /\ race.th[j].early /\ race.th[j].got # 0)
    => /\ Len(race.born) = 1
       /\ Len(race.owner) = 1
       /\ race.th[i].got = race.th[j].got

\* C39: while no closeBrowser call is under way, a context or a page is
\* stored only together with a browser that is open; and a getPage call that
\* began after the last close that has finished gives a page of a browser
\* that is open and was launched after that close
C39_NoHandleWithoutBrowser ==
  /\ race.closer = 0 =>
       ((race.context # 0 \/ race.page # 0)
          => (race.browser # 0 /\ race.browser \notin race.closed))
  /\ \A i \in 1..MaxCallers :
       (/\ race.th[i].pc = "done"
        /\ race.th[i].after >= 1
        /\ race.th[i].after = race.closes)
       => /\ ~isClosed(race, race.th[i].got)
          /\ race.born[browserOf(race, race.th[i].got)] >= race.th[i].after

====
